---- MODULE Spec2Model ----
(***************************************************************************)
(* A model of the SVG2HTML converter (src/svg2html.py) and of the          *)
(* conversion threads of its window (src/gui_actions.py).                  *)
(*                                                                         *)
(* Representation.                                                         *)
(*  - A Python str is a sequence of tokens (TLA+ strings).  Every          *)
(*    character the code inspects (the separators - ; : . , the digits,    *)
(*    the sign, the blank) is a token of its own, so that split, strip,    *)
(*    rstrip, startswith and "in" act on tokens as they act on the         *)
(*    characters; a word the code never looks into is one token.           *)
(*  - A Python float is a fixed-point integer counting units of 1/Scale.   *)
(*  - A Python dict is a sequence of <<key, value>> pairs with distinct    *)
(*    keys, in insertion order.                                            *)
(*  - An input document is a sequence of markup tokens (records): the      *)
(*    text of a tag is one token.                                          *)
(***************************************************************************)
EXTENDS Integers, Sequences, FiniteSets, TLC

VARIABLES
    self,            \* the converter instance: the fields set by __init__
    svg_content,     \* argument of the last convert_svg_to_html call
    result,          \* what that call returned or raised
    element_id,      \* local of _convert_svg_to_html_full, as the last call left it
    element_styles,  \* local of _convert_svg_to_html_full, as the last call left it
    optimized_css,   \* local of _convert_svg_to_html_full, as the last call left it
    calls,           \* number of calls made on this instance
    history,         \* the calls made on this instance: [content, result] each
    bounds_input,    \* the path_data _calculate_path_bounds is called with
    bounds_result,   \* what _calculate_path_bounds returned: <<"pending">> before
    files,           \* convert_directory: the files os.walk yields, in order
    idx,             \* convert_directory: the files the loop is done with
    success_count,   \* convert_directory: local
    fail_count,      \* convert_directory: local
    log,             \* the lines convert_file printed: [input, ok, cause] each
    outputs,         \* the file system: outputs[i] is the output file of files[i]
    batch_state,     \* "idle", "walking", "returned" or "raised"
    fmt_value,       \* the float _fmt is called with
    fmt_text,        \* what _fmt returned: <<"pending">> before
    workers,         \* the ConversionWorker threads started, in order
    signals,         \* conversion_complete emissions not yet delivered to the GUI thread
    progress_visible,\* window.progress_bar.isVisible()
    status_message   \* the text of window.status_bar

convVars == <<self, svg_content, result, element_id, element_styles, optimized_css, calls, history>>

pathVars == <<bounds_input, bounds_result>>

batchVars == <<files, idx, success_count, fail_count, log, outputs, batch_state>>

fmtVars == <<fmt_value, fmt_text>>

guiVars == <<workers, signals, progress_visible, status_message>>

vars == <<convVars, pathVars, batchVars, fmtVars, guiVars>>

----------------------------------------------------------------------------
(* Strings as token sequences *)

RECURSIVE Concat(_)
\* ''.join(parts)
Concat(parts) ==
    IF parts = <<>> THEN <<>> ELSE Head(parts) \o Concat(Tail(parts))

RECURSIVE Join(_, _)
\* sep.join(parts)
Join(parts, sep) ==
    IF parts = <<>> THEN <<>>
    ELSE IF Len(parts) = 1 THEN parts[1]
    ELSE parts[1] \o sep \o Join(Tail(parts), sep)

\* index of the first token of s equal to c, 0 when there is none
IndexOf(s, c) ==
    IF \E i \in 1..Len(s) : s[i] = c
    THEN CHOOSE i \in 1..Len(s) : s[i] = c /\ \A j \in 1..(i - 1) : s[j] # c
    ELSE 0

RECURSIVE Split(_, _)
\* s.split(c): the pieces between the occurrences of the one-character c
Split(s, c) ==
    LET i == IndexOf(s, c) IN
    IF i = 0 THEN <<s>>
    ELSE <<SubSeq(s, 1, i - 1)>> \o Split(SubSeq(s, i + 1, Len(s)), c)

\* s.split(): the non-empty pieces between blanks
SplitWs(s) == SelectSeq(Split(s, " "), LAMBDA piece : piece # <<>>)

\* s.split(c, 1)
Split1(s, c) ==
    LET i == IndexOf(s, c) IN
    IF i = 0 THEN <<s>> ELSE <<SubSeq(s, 1, i - 1), SubSeq(s, i + 1, Len(s))>>

RECURSIVE RStrip(_, _)
\* s.rstrip(c)
RStrip(s, c) ==
    IF s # <<>> /\ s[Len(s)] = c THEN RStrip(SubSeq(s, 1, Len(s) - 1), c) ELSE s

RECURSIVE LStrip(_, _)
\* s.lstrip(c)
LStrip(s, c) ==
    IF s # <<>> /\ Head(s) = c THEN LStrip(Tail(s), c) ELSE s

\* s.strip()
Strip(s) == RStrip(LStrip(s, " "), " ")

\* word in s, for a word that no token contains as a proper part
Contains(s, word) == \E i \in 1..Len(s) : s[i] = word

\* s.startswith(c) for a one-character c
StartsWith(s, c) == s # <<>> /\ Head(s) = c

----------------------------------------------------------------------------
(* dict as an insertion-ordered sequence of <<key, value>> pairs *)

Keys(d) == {d[i][1] : i \in 1..Len(d)}

HasKey(d, k) == \E i \in 1..Len(d) : d[i][1] = k

\* d[k] for a key of d
Lookup(d, k) == d[CHOOSE i \in 1..Len(d) : d[i][1] = k][2]

\* d[k] = v: an existing key keeps its place
DictSet(d, k, v) ==
    IF HasKey(d, k)
    THEN [i \in 1..Len(d) |-> IF d[i][1] = k THEN <<k, v>> ELSE d[i]]
    ELSE Append(d, <<k, v>>)

\* del d[k]
DictDel(d, k) == SelectSeq(d, LAMBDA kv : kv[1] # k)

RECURSIVE DictUpdate(_, _)
\* d.update(e)
DictUpdate(d, e) ==
    IF e = <<>> THEN d ELSE DictUpdate(DictSet(d, Head(e)[1], Head(e)[2]), Tail(e))

----------------------------------------------------------------------------
(* Numbers: a float is an integer count of units of 1/Scale *)

\* decimal digits the model keeps after the point
FracDigits == 4

RECURSIVE Pow10(_)
Pow10(n) == IF n = 0 THEN 1 ELSE 10 * Pow10(n - 1)

Scale == Pow10(FracDigits)

\* the float i.f, f given in ten-thousandths
Num(i, f) == i * Scale + f * (Scale \div 10000)

Abs(v) == IF v < 0 THEN 0 - v ELSE v

DigitTok(d) == <<"0", "1", "2", "3", "4", "5", "6", "7", "8", "9">>[d + 1]

RECURSIVE Digits(_)
\* the decimal digits of n >= 0
Digits(n) == IF n < 10 THEN <<DigitTok(n)>> ELSE Digits(n \div 10) \o <<DigitTok(n % 10)>>

RECURSIVE Zeros(_)
Zeros(n) == IF n <= 0 THEN <<>> ELSE <<"0">> \o Zeros(n - 1)

\* the digits of n, left-padded with zeros to width w
PadDigits(n, w) == Zeros(w - Len(Digits(n))) \o Digits(n)

\* |v| in units of 10^-p, rounded half to even, for p < FracDigits
RoundTo(v, p) ==
    LET unit == Pow10(FracDigits - p)
        q    == Abs(v) \div unit
        r    == Abs(v) % unit
    IN  IF 2 * r > unit \/ (2 * r = unit /\ q % 2 = 1) THEN q + 1 ELSE q

\* format(value, '.<p>f')
FormatFixed(v, p) ==
    LET sign == IF v < 0 THEN <<"-">> ELSE <<>>
        ip   == IF p >= FracDigits THEN Abs(v) \div Scale ELSE RoundTo(v, p) \div Pow10(p)
        fr   == IF p >= FracDigits
                THEN PadDigits(Abs(v) % Scale, FracDigits) \o Zeros(p - FracDigits)
                ELSE PadDigits(RoundTo(v, p) % Pow10(p), p)
    IN  sign \o Digits(ip) \o (IF p > 0 THEN <<".">> \o fr ELSE <<>>)

\* SVG2HTML._fmt
_fmt(value, precision) == RStrip(RStrip(FormatFixed(value, precision), "0"), ".")

\* str(value) of a float, as an f-string interpolates it: at least one
\* fractional digit, no other trailing zero
FloatStr(v) ==
    LET fr == RStrip(PadDigits(Abs(v) % Scale, FracDigits), "0")
    IN  (IF v < 0 THEN <<"-">> ELSE <<>>) \o Digits(Abs(v) \div Scale)
            \o <<".">> \o (IF fr = <<>> THEN <<"0">> ELSE fr)

RECURSIVE LongDiv(_, _, _)
\* the first n decimal digits of r / x, for 0 <= r < x
LongDiv(r, x, n) ==
    IF n = 0 THEN 0
    ELSE ((r * 10) \div x) * Pow10(n - 1) + LongDiv((r * 10) % x, x, n - 1)

RECURSIVE ISqrtIn(_, _, _)
\* the integer square root of n, searched in lo..hi
ISqrtIn(n, lo, hi) ==
    IF lo = hi THEN lo
    ELSE LET mid == (lo + hi + 1) \div 2
         IN  IF mid * mid <= n THEN ISqrtIn(n, mid, hi) ELSE ISqrtIn(n, lo, mid - 1)

RECURSIVE SqrtDigits(_, _, _)
\* n more decimal digits of a square root, from its root r and remainder rem
SqrtDigits(r, rem, n) ==
    IF n = 0 THEN r
    ELSE LET d == CHOOSE k \in 0..9 :
                     /\ (20 * r + k) * k <= rem * 100
                     /\ (k = 9 \/ (20 * r + k + 1) * (k + 1) > rem * 100)
         IN  SqrtDigits(10 * r + d, rem * 100 - (20 * r + d) * d, n - 1)

\* ((x2 - x1) ** 2 + (y2 - y1) ** 2) ** 0.5 for coordinates that are whole
\* hundredths, truncated to FracDigits digits
Hypot(dx, dy) ==
    LET h  == Scale \div 100
        n  == (dx \div h) * (dx \div h) + (dy \div h) * (dy \div h)
        r0 == ISqrtIn(n, 0, 46340)
    IN  SqrtDigits(r0, n - r0 * r0, FracDigits - 2)

\* 1.5707963267948966 * 180 / 3.14159 = 90.000076..., to FracDigits digits
HalfPiDegrees == 90 * Scale + (76 * Scale + 500000) \div 1000000

\* SVG2HTML._atan2(y, x) * 180 / 3.14159: for x = 0 a quarter turn, signed
\* by y > 0; otherwise the quotient y / x itself, taken for the angle in
\* radians (the quotient is kept to 6 digits where the code rounds to 8)
_atan2_degrees(y, x) ==
    IF x = 0 THEN (IF y > 0 THEN HalfPiDegrees ELSE 0 - HalfPiDegrees)
    ELSE LET neg == (y < 0) # (x < 0)
             q6  == (Abs(y) \div Abs(x)) * 1000000 + LongDiv(Abs(y) % Abs(x), Abs(x), 6)
             a   == q6 * 180
             deg == (a \div 3141590) * Scale + LongDiv(a % 3141590, 3141590, FracDigits)
         IN  IF neg THEN 0 - deg ELSE deg

----------------------------------------------------------------------------
(* Documents.  The input text is a sequence of markup tokens:              *)
(*   [k |-> "raw", s]            text that is no tag (a prolog, a comment) *)
(*   [k |-> "open", tag, attrs]  a start tag                               *)
(*   [k |-> "close", tag]        an end tag                                *)
(*   [k |-> "elem", tag, attrs, text, children]  an element: its own       *)
(*                               string and its child elements             *)
(* attrs maps the attribute names present to their values, token strings   *)
(* (the path data of d is a sequence of path tokens, see below).           *)

IsTag(tok) == tok.k \in {"open", "elem"}

\* BeautifulSoup(svg_content, 'xml').find('svg'): the position of the first
\* svg start tag, 0 when there is none
FindSvg(text) ==
    IF \E i \in 1..Len(text) : IsTag(text[i]) /\ text[i].tag = "svg"
    THEN CHOOSE i \in 1..Len(text) :
            /\ IsTag(text[i]) /\ text[i].tag = "svg"
            /\ \A j \in 1..(i - 1) : ~(IsTag(text[j]) /\ text[j].tag = "svg")
    ELSE 0

\* the child elements of a tag
ChildrenOf(element) == IF element.k = "elem" THEN element.children ELSE <<>>

RECURSIVE Descendants(_)
\* the elements of a sequence, each followed by its descendants: document order
Descendants(elements) ==
    IF elements = <<>> THEN <<>>
    ELSE <<Head(elements)>> \o Descendants(ChildrenOf(Head(elements)))
            \o Descendants(Tail(elements))

\* element.find_all(name): the descendants of an element with that tag
FindAllNamed(element, name) ==
    SelectSeq(Descendants(ChildrenOf(element)), LAMBDA e : e.tag = name)

\* svg_tag.find_all(True): the tags after the root's start tag, in document order
FindAll(text) ==
    Descendants(SelectSeq(SubSeq(text, FindSvg(text) + 1, Len(text)), IsTag))

\* the element's own string alone
TextContent_DirectOnly(element) == element.text

RECURSIVE TextContent(_)
\* svg_element.string or ''.join(the strings under the element): the
\* element's own string, then those of its children in order
TextContent(element) ==
    element.text
        \o Concat([i \in 1..Len(element.children) |-> TextContent(element.children[i])])

\* element.get(name, default)
Get(element, name, default) ==
    IF name \in DOMAIN element.attrs THEN element.attrs[name] ELSE default

Has(element, name) == name \in DOMAIN element.attrs

DigitVal(tok) == CHOOSE d \in 0..9 : DigitTok(d) = tok

IsDigit(tok) == \E d \in 0..9 : DigitTok(d) = tok

RECURSIVE DigitsVal(_)
\* the value of a sequence of digits
DigitsVal(ds) ==
    IF ds = <<>> THEN 0 ELSE DigitsVal(SubSeq(ds, 1, Len(ds) - 1)) * 10 + DigitVal(ds[Len(ds)])

\* the fraction digits ds in units of 1/Scale (digits past FracDigits dropped)
FracVal(ds) ==
    LET kept == SubSeq(ds, 1, IF Len(ds) < FracDigits THEN Len(ds) ELSE FracDigits)
    IN  DigitsVal(kept) * Pow10(FracDigits - Len(kept))

\* the texts of floats whose square is beyond the range of a float
HugeTexts == {<<"1e200">>, <<"-", "1e200">>}

\* the value that stands for such a float: larger than every sum and
\* difference of the other inputs
HugeFloat == Pow10(9)

\* v ** 2 raises OverflowError
SquareOverflows(v) == Abs(v) >= HugeFloat \div 2

\* float(s): [ok, v]; ok is FALSE where float raises ValueError.  A sign,
\* digits, at most one point, and at least one digit; or a huge text.
ParseFloat(s) ==
    LET neg   == s # <<>> /\ Head(s) = "-"
        body  == IF s # <<>> /\ Head(s) \in {"-", "+"} THEN Tail(s) ELSE s
        parts == Split(body, ".")
        ip    == parts[1]
        fp    == IF Len(parts) = 2 THEN parts[2] ELSE <<>>
        ok    == /\ Len(parts) <= 2
                 /\ \A i \in 1..Len(ip) : IsDigit(ip[i])
                 /\ \A i \in 1..Len(fp) : IsDigit(fp[i])
                 /\ Len(ip) + Len(fp) > 0
        mag   == DigitsVal(ip) * Scale + FracVal(fp)
    IN  IF s \in HugeTexts THEN [ok |-> TRUE, v |-> IF neg THEN 0 - HugeFloat ELSE HugeFloat]
        ELSE IF ok THEN [ok |-> TRUE, v |-> IF neg THEN 0 - mag ELSE mag]
        ELSE [ok |-> FALSE, v |-> 0]

\* the words of lower-case letters and the per cent sign that end a value
UnitTokens == {"px", "em", "pt", "%", "auto"}

RECURSIVE StripUnits(_)
\* re.sub(r'[a-z%]+$', '', value)
StripUnits(value) ==
    IF value # <<>> /\ value[Len(value)] \in UnitTokens
    THEN StripUnits(SubSeq(value, 1, Len(value) - 1)) ELSE value

\* SVG2HTML._get_float_attr: the attribute as a float, the default when the
\* attribute is absent or float raises ValueError
_get_float_attr(element, attr_name, default) ==
    IF ~Has(element, attr_name) THEN default
    ELSE LET f == ParseFloat(StripUnits(element.attrs[attr_name]))
         IN  IF f.ok THEN f.v ELSE default

\* SVG2HTML._get_text_height: font_size * 1.2
_get_text_height(element) == (_get_float_attr(element, "font-size", 16 * Scale) * 12) \div 10

\* f"{name}: {value}"
Decl(name, value) == <<name, ":", " ">> \o value

\* f"{name}: {self._fmt(v)}px"
Px(name, v, precision) == Decl(name, _fmt(v, precision) \o <<"px">>)

----------------------------------------------------------------------------
(* Path data: a sequence of [k |-> "cmd", c] and [k |-> "num", v] tokens,  *)
(* one separator (a blank or a comma) between neighbours.                  *)

IsNum(tok) == tok.k = "num"

\* the text of the path data
RECURSIVE PathText(_)
PathText(d) ==
    IF d = <<>> THEN <<>>
    ELSE (IF IsNum(Head(d)) THEN _fmt(Head(d).v, FracDigits) ELSE <<Head(d).c>>)
            \o (IF Len(d) > 1 THEN <<" ">> ELSE <<>>) \o PathText(Tail(d))

RECURSIVE ParseSegments(_, _)
\* svgpathtools' reading of the commands from the first moveto on: the points
\* of the segments, or the exception it raises.  n counts the segments; a
\* coordinate pair without a command is an implicit lineto.
ParseSegments(d, acc) ==
    IF d = <<>> THEN [outcome |-> "path", points |-> acc.points, n |-> acc.n]
    ELSE IF IsNum(Head(d))
         THEN IF Len(d) >= 2 /\ IsNum(d[2])
              THEN ParseSegments(SubSeq(d, 3, Len(d)),
                       [points |-> Append(acc.points, <<d[1].v, d[2].v>>),
                        n |-> acc.n + 1])
              ELSE [outcome |-> "IndexError", points |-> <<>>, n |-> 0]
    ELSE IF Head(d).c = "Z" THEN ParseSegments(Tail(d), acc)
    ELSE IF Head(d).c \in {"M", "L"}
         THEN IF Len(d) >= 3 /\ IsNum(d[2]) /\ IsNum(d[3])
              THEN ParseSegments(SubSeq(d, 4, Len(d)),
                       [points |-> Append(acc.points, <<d[2].v, d[3].v>>),
                        n |-> IF Head(d).c = "L" THEN acc.n + 1 ELSE acc.n])
              ELSE [outcome |-> "IndexError", points |-> <<>>, n |-> 0]
    ELSE [outcome |-> "other", points |-> <<>>, n |-> 0]

\* svgpathtools.parse_path followed by the truth test of the Path (its
\* number of segments): moveto, lineto and closepath are read; data that
\* does not start with a moveto is a ValueError, a command short of
\* arguments an IndexError, any other command an exception of another class
parse_path(d) ==
    IF d = <<>> THEN [outcome |-> "path", points |-> <<>>, n |-> 0]
    ELSE IF IsNum(Head(d)) \/ Head(d).c # "M"
         THEN [outcome |-> IF IsNum(Head(d)) \/ Head(d).c \in {"L", "Z"}
                           THEN "ValueError" ELSE "other",
               points |-> <<>>, n |-> 0]
    ELSE ParseSegments(d, [points |-> <<>>, n |-> 0])

RECURSIVE FindPairs(_)
\* re.findall(r'([+-]?\d*\.?\d+)[,\s]([+-]?\d*\.?\d+)', path_data): the
\* numbers paired from left to right, a pair being two neighbouring numbers
FindPairs(d) ==
    IF Len(d) < 2 THEN <<>>
    ELSE IF IsNum(d[1]) /\ IsNum(d[2])
         THEN <<<<d[1].v, d[2].v>>>> \o FindPairs(SubSeq(d, 3, Len(d)))
         ELSE FindPairs(Tail(d))

\* min / max over column c of a non-empty sequence of points
MinOf(points, c) ==
    CHOOSE m \in {points[i][c] : i \in 1..Len(points)} :
        \A i \in 1..Len(points) : m <= points[i][c]

MaxOf(points, c) ==
    CHOOSE m \in {points[i][c] : i \in 1..Len(points)} :
        \A i \in 1..Len(points) : m >= points[i][c]

\* (min_x, min_y, max_x, max_y) of a non-empty sequence of points
BoxOf(points) ==
    <<MinOf(points, 1), MinOf(points, 2), MaxOf(points, 1), MaxOf(points, 2)>>

\* Path.bbox() of svgpathtools: (xmin, xmax, ymin, ymax)
bbox(points) ==
    <<MinOf(points, 1), MaxOf(points, 1), MinOf(points, 2), MaxOf(points, 2)>>

\* the value None
None == <<>>

\* the box returned by the last except clause
DefaultBox == <<0, 0, 100 * Scale, 100 * Scale>>

\* if not coords: return None, else the box of the points
BoxOrNone(coords) == IF coords = <<>> THEN None ELSE BoxOf(coords)

\* the regular-expression part of _calculate_path_bounds
RegexBounds(path_data) == BoxOrNone(FindPairs(path_data))

\* (bbox[0], bbox[1], bbox[2], bbox[3])
FromBbox(b) == <<b[1], b[2], b[3], b[4]>>

\* _calculate_path_bounds after the call of parse_path
BoundsOfParsed(path, path_data) ==
    IF path.outcome = "path" /\ path.n > 0 THEN FromBbox(bbox(path.points))
    ELSE IF path.outcome \in {"path", "ValueError", "IndexError"}
         THEN RegexBounds(path_data)
    ELSE DefaultBox

\* SVG2HTML._calculate_path_bounds: the tuple it returns is read by its
\* caller as (min_x, min_y, max_x, max_y)
_calculate_path_bounds(path_data) == BoundsOfParsed(parse_path(path_data), path_data)

----------------------------------------------------------------------------
(* Per-element extraction *)

\* (float(x), float(y)) of the two parts of a point, <<>> when a float() raises
PairOf(x, y) == IF x.ok /\ y.ok THEN <<<<x.v, y.v>>>> ELSE <<>>

\* one token of points.split(): <<>> when it is skipped (no comma, not two
\* parts, or a part that is no float), else <<(float(x), float(y))>>
ParsePoint(point) ==
    IF Contains(point, ",") /\ Len(Split(point, ",")) = 2
    THEN PairOf(ParseFloat(Split(point, ",")[1]), ParseFloat(Split(point, ",")[2]))
    ELSE <<>>

RECURSIVE ParsePointTokens(_)
ParsePointTokens(toks) ==
    IF toks = <<>> THEN <<>> ELSE ParsePoint(Head(toks)) \o ParsePointTokens(Tail(toks))

\* the point_list built from element.get('points', '')
ParsePoints(points) == ParsePointTokens(SplitWs(points))

\* (x - min) / (max - min) * 100 if max > min else 0
Percent(x, lo, hi) ==
    IF hi > lo
    THEN ((x - lo) \div (hi - lo)) * 100 * Scale
            + LongDiv(((x - lo) % (hi - lo)), hi - lo, FracDigits + 2)
    ELSE 0

\* f"{rel_x}% {rel_y}%" per point, b the box of the points
RelativeIn(point_list, b, precision) ==
    [i \in 1..Len(point_list) |->
        _fmt(Percent(point_list[i][1], b[1], b[3]), precision) \o <<"%", " ">>
            \o _fmt(Percent(point_list[i][2], b[2], b[4]), precision) \o <<"%">>]

\* the relative_points of a polygon
RelativePoints(point_list, precision) ==
    RelativeIn(point_list, BoxOf(point_list), precision)

\* f"clip-path: polygon({', '.join(relative_points)})"
ClipPath(point_list, precision) ==
    Decl("clip-path",
         <<"polygon(">> \o Join(RelativePoints(point_list, precision), <<",", " ">>) \o <<")">>)

\* f"{adj_x},{adj_y}" per point, b the box of the points
AdjustedIn(point_list, b, precision) ==
    [i \in 1..Len(point_list) |->
        _fmt(point_list[i][1] - b[1], precision) \o <<",">>
            \o _fmt(point_list[i][2] - b[2], precision)]

\* the adjusted_points of a polyline
AdjustedPoints(point_list, precision) ==
    AdjustedIn(point_list, BoxOf(point_list), precision)

\* f"'{s}'"
Quoted(s) == <<"'">> \o s \o <<"'">>

\* the left, top, width and height appended for a shape
BoxDecls(left, top, width, height, precision) ==
    << Px("left", left, precision), Px("top", top, precision),
       Px("width", width, precision), Px("height", height, precision) >>

\* the left, top, width and height appended for a box (min_x, min_y, max_x, max_y)
BoundsDecls(b, min_x, min_y, precision) ==
    BoxDecls(b[1] - min_x, b[2] - min_y, b[3] - b[1], b[4] - b[2], precision)

\* the border-radius of a rect, were it the larger of the two radii
RadiusDecls_Larger(rx, ry, precision) ==
    IF rx > 0 \/ ry > 0
    THEN <<Px("border-radius", IF rx > ry THEN rx ELSE ry, precision)>>
    ELSE <<>>

\* the border-radius of a rect
RadiusDecls(rx, ry, precision) ==
    IF rx > 0 \/ ry > 0
    THEN IF rx = ry
         THEN <<Px("border-radius", rx, precision)>>
         ELSE <<Decl("border-radius",
                     _fmt(rx, precision) \o <<"px", " ">> \o _fmt(ry, precision) \o <<"px">>)>>
    ELSE <<>>

\* rx, and ry with rx as its default
RectRadius(element, rx, precision) ==
    RadiusDecls(rx, _get_float_attr(element, "ry", rx), precision)

\* the circle branch, were the box put at the centre
CircleProps_AtCentre(cx, cy, r, min_x, min_y, precision) ==
    BoxDecls(cx - min_x, cy - min_y, r * 2, r * 2, precision)
        \o <<Decl("border-radius", <<"50%">>)>>

\* the circle branch
CircleProps(cx, cy, r, min_x, min_y, precision) ==
    BoxDecls(cx - r - min_x, cy - r - min_y, r * 2, r * 2, precision)
        \o <<Decl("border-radius", <<"50%">>)>>

\* the ellipse branch
EllipseProps(cx, cy, rx, ry, min_x, min_y, precision) ==
    BoxDecls(cx - rx - min_x, cy - ry - min_y, rx * 2, ry * 2, precision)
        \o <<Decl("border-radius", <<"50%">>)>>

\* f"{angle}" of the line branch: the float as str writes it; the
\* quotient of a zero dy and a negative dx is the float -0.0
AngleText(dy, dx) ==
    IF dy = 0 /\ dx < 0 THEN <<"-", "0", ".", "0">>
    ELSE FloatStr(_atan2_degrees(dy, dx))

\* the line branch: the angle is written as the float is, not by _fmt
LineProps(x1, y1, x2, y2, min_x, min_y, precision) ==
    << Px("left", x1 - min_x, precision), Px("top", y1 - min_y, precision),
       Px("width", Hypot(x2 - x1, y2 - y1), precision), Decl("height", <<"0">>),
       Decl("transform", <<"rotate(">> \o AngleText(y2 - y1, x2 - x1) \o <<"deg)">>),
       Decl("transform-origin", <<"0", " ", "0">>) >>

\* the polyline / polygon branch
PolyProps(element, tag_name, point_list, min_x, min_y, precision) ==
    IF point_list = <<>> THEN <<>>
    ELSE BoundsDecls(BoxOf(point_list), min_x, min_y, precision)
         \o (IF tag_name = "polygon"
             THEN <<ClipPath(point_list, precision)>>
             ELSE << Decl("--polyline-points",
                          Quoted(Join(AdjustedPoints(point_list, precision), <<" ">>))),
                     Decl("--polyline-stroke",
                          Quoted(Get(element, "stroke", <<"black">>))),
                     Decl("--polyline-stroke-width",
                          Quoted(Get(element, "stroke-width", <<"1">>))) >>)

\* the path branch
PathProps(path_data, bounds, min_x, min_y, precision) ==
    IF bounds = None THEN <<>>
    ELSE BoundsDecls(bounds, min_x, min_y, precision)
         \o <<Decl("--path-data", Quoted(PathText(path_data)))>>

\* the shape branch of _extract_element_style: the css_props it appends
ShapeProps(element, tag_name, min_x, min_y, precision) ==
    CASE tag_name = "rect" ->
            BoxDecls(_get_float_attr(element, "x", 0) - min_x,
                     _get_float_attr(element, "y", 0) - min_y,
                     _get_float_attr(element, "width", 0),
                     _get_float_attr(element, "height", 0), precision)
            \o RectRadius(element, _get_float_attr(element, "rx", 0), precision)
      [] tag_name = "circle" ->
            CircleProps(_get_float_attr(element, "cx", 0), _get_float_attr(element, "cy", 0),
                        _get_float_attr(element, "r", 0), min_x, min_y, precision)
      [] tag_name = "ellipse" ->
            EllipseProps(_get_float_attr(element, "cx", 0), _get_float_attr(element, "cy", 0),
                         _get_float_attr(element, "rx", 0), _get_float_attr(element, "ry", 0),
                         min_x, min_y, precision)
      [] tag_name = "line" ->
            LineProps(_get_float_attr(element, "x1", 0), _get_float_attr(element, "y1", 0),
                      _get_float_attr(element, "x2", 0), _get_float_attr(element, "y2", 0),
                      min_x, min_y, precision)
      [] tag_name \in {"polyline", "polygon"} ->
            PolyProps(element, tag_name, ParsePoints(Get(element, "points", <<>>)),
                      min_x, min_y, precision)
      [] tag_name = "path" ->
            PathProps(Get(element, "d", <<>>),
                      _calculate_path_bounds(Get(element, "d", <<>>)), min_x, min_y, precision)
      [] tag_name = "text" ->
            << Px("left", _get_float_attr(element, "x", 0) - min_x, precision),
               Px("top", _get_float_attr(element, "y", 0) - min_y - _get_text_height(element),
                  precision),
               Decl("font-family", Get(element, "font-family", <<"sans-serif">>)),
               Decl("font-size", Get(element, "font-size", <<"1", "6">>)) >>
      [] OTHER -> <<>>

\* the style_map of _convert_svg_style_to_css
style_map ==
    << <<<<"fill">>, <<"background-color">>>>,
       <<<<"fill-opacity">>, <<"opacity">>>>,
       <<<<"stroke">>, <<"border-color">>>>,
       <<<<"stroke-width">>, <<"border-width">>>>,
       <<<<"stroke-opacity">>, <<"border-opacity">>>>,
       <<<<"font-family">>, <<"font-family">>>>,
       <<<<"font-size">>, <<"font-size">>>>,
       <<<<"text-anchor">>, <<"text-align">>>> >>

\* SVG2HTML._convert_svg_style_to_css: style_map.get(svg_style, svg_style)
_convert_svg_style_to_css(svg_style) ==
    IF HasKey(style_map, svg_style) THEN Lookup(style_map, svg_style) ELSE svg_style

\* the arguments of the first call of fname in a transform string: the
\* tokens between its "(" and the next ")", split at the commas; <<>> when
\* the call is not of that form
CallArgs(transform, fname) ==
    LET i == IndexOf(transform, fname)
        rest == SubSeq(transform, i + 1, Len(transform))
        j == IndexOf(rest, ")")
    IN  IF i = 0 \/ rest = <<>> \/ Head(rest) # "(" \/ j < 3 THEN <<>>
        ELSE Split(SubSeq(rest, 2, j - 1), ",")

\* SVG2HTML._convert_svg_transform_to_css
_convert_svg_transform_to_css(transform) ==
    IF Contains(transform, "rotate")
    THEN LET a == CallArgs(transform, "rotate")
         IN  IF Len(a) = 3 /\ a[1] # <<>> /\ a[2] # <<>> /\ a[3] # <<>>
             THEN <<"rotate(">> \o a[1] \o <<"deg)", " ", "translate(">> \o a[2] \o <<"px", ",", " ">>
                    \o a[3] \o <<"px)", " ", "rotate(", "-">> \o a[1] \o <<"deg)", " ", "translate(", "-">>
                    \o a[2] \o <<"px", ",", " ", "-">> \o a[3] \o <<"px)">>
             ELSE IF Len(a) = 1 /\ a[1] # <<>>
                  THEN <<"rotate(">> \o a[1] \o <<"deg)">>
                  ELSE transform
    ELSE IF Contains(transform, "translate")
    THEN LET a == CallArgs(transform, "translate")
         IN  IF Len(a) >= 1 /\ a[1] # <<>> /\ (Len(a) = 1 \/ Join(Tail(a), <<",">>) # <<>>)
             THEN <<"translate(">> \o a[1] \o <<"px", ",", " ">>
                    \o (IF Len(a) = 1 THEN <<"0">> ELSE Join(Tail(a), <<",">>)) \o <<"px)">>
             ELSE transform
    ELSE IF Contains(transform, "scale")
    THEN LET a == CallArgs(transform, "scale")
         IN  IF Len(a) >= 1 /\ a[1] # <<>> /\ (Len(a) = 1 \/ Join(Tail(a), <<",">>) # <<>>)
             THEN <<"scale(">> \o a[1] \o <<",", " ">>
                    \o (IF Len(a) = 1 THEN a[1] ELSE Join(Tail(a), <<",">>)) \o <<")">>
             ELSE transform
    ELSE transform

\* the css_props appended after the shape branch: fill, stroke, style, transform
CommonProps(element) ==
    LET fill      == Get(element, "fill", None)
        stroke    == Get(element, "stroke", None)
        style_attr == Get(element, "style", <<>>)
        transform == Get(element, "transform", <<>>)
    IN  (IF fill # <<>> /\ fill # <<"none">> THEN <<Decl("background-color", fill)>>
         ELSE IF fill = <<"none">> THEN <<Decl("background-color", <<"transparent">>)>>
         ELSE <<>>)
        \o (IF stroke # <<>> /\ stroke # <<"none">>
            THEN <<Decl("border", Get(element, "stroke-width", <<"1">>)
                                    \o <<"px", " ", "solid", " ">> \o stroke)>>
            ELSE <<>>)
        \o (IF style_attr # <<>> THEN <<_convert_svg_style_to_css(style_attr)>> ELSE <<>>)
        \o (IF transform # <<>> THEN <<_convert_svg_transform_to_css(transform)>> ELSE <<>>)

\* the try block of _extract_element_style raises: the squares of the line
\* branch overflow (the other float operations of the block give inf or
\* nan and do not raise; float() errors are caught where they occur)
ExtractRaises(element, tag_name) ==
    /\ tag_name = "line"
    /\ \/ SquareOverflows(_get_float_attr(element, "x2", 0) - _get_float_attr(element, "x1", 0))
       \/ SquareOverflows(_get_float_attr(element, "y2", 0) - _get_float_attr(element, "y1", 0))

\* _extract_element_style, were a failure of the shape branch to leave
\* the rest of the block running
_extract_element_style_ShapeOnly(element, tag_name, min_x, min_y, precision) ==
    IF ExtractRaises(element, tag_name) THEN Join(CommonProps(element), <<";", " ">>)
    ELSE Join(ShapeProps(element, tag_name, min_x, min_y, precision) \o CommonProps(element),
              <<";", " ">>)

\* SVG2HTML._extract_element_style: '; '.join(css_props), "" when the try
\* block raises
_extract_element_style(element, tag_name, min_x, min_y, precision) ==
    IF ExtractRaises(element, tag_name) THEN <<>>
    ELSE Join(ShapeProps(element, tag_name, min_x, min_y, precision) \o CommonProps(element),
              <<";", " ">>)

RECURSIVE ParseProps(_, _)
ParseProps(props, properties) ==
    IF props = <<>> THEN properties
    ELSE LET prop == Head(props)
             kv   == Split1(prop, ":")
         IN  IF Strip(prop) # <<>> /\ Contains(prop, ":")
             THEN ParseProps(Tail(props), DictSet(properties, Strip(kv[1]), Strip(kv[2])))
             ELSE ParseProps(Tail(props), properties)

\* SVG2HTML._parse_css_properties
_parse_css_properties(css_string) == ParseProps(Split(css_string, ";"), <<>>)

----------------------------------------------------------------------------
(* Gradients.  A colour is a sequence of tokens: "#" and one token per hex  *)
(* digit, or a name, or an rgba(...) text that starts with "rgba(".         *)

RECURSIVE Replace(_, _, _)
\* s.replace(old, new), old not empty
Replace(s, old, new) ==
    IF Len(s) < Len(old) THEN s
    ELSE IF SubSeq(s, 1, Len(old)) = old
    THEN new \o Replace(SubSeq(s, Len(old) + 1, Len(s)), old, new)
    ELSE <<Head(s)>> \o Replace(Tail(s), old, new)

LowerHex == <<"0", "1", "2", "3", "4", "5", "6", "7", "8", "9", "a", "b", "c", "d", "e", "f">>

UpperHex == <<"0", "1", "2", "3", "4", "5", "6", "7", "8", "9", "A", "B", "C", "D", "E", "F">>

IsHex(tok) == \E i \in 1..16 : LowerHex[i] = tok \/ UpperHex[i] = tok

HexVal(tok) == (CHOOSE i \in 1..16 : LowerHex[i] = tok \/ UpperHex[i] = tok) - 1

RECURSIVE HexNumber(_)
HexNumber(ds) ==
    IF ds = <<>> THEN 0
    ELSE HexNumber(SubSeq(ds, 1, Len(ds) - 1)) * 16 + HexVal(ds[Len(ds)])

\* int(text, 16) raises ValueError for an empty text and for a text with a
\* token that is no hex digit
IntRaises(ds) == ds = <<>> \/ \E i \in 1..Len(ds) : ~IsHex(ds[i])

\* hex_color[a:b], 0-based and end-exclusive as the slice is
Slice(s, a, b) == SubSeq(s, a + 1, IF b < Len(s) THEN b ELSE Len(s))

\* the short form widened with a zero after each digit
Doubled_ZeroPadded(hex_color) == Concat([i \in 1..Len(hex_color) |-> <<hex_color[i], "0">>])

\* ''.join([c*2 for c in hex_color])
Doubled(hex_color) == Concat([i \in 1..Len(hex_color) |-> <<hex_color[i], hex_color[i]>>])

\* SVG2HTML._hex_to_rgb: [ok, r, g, b]; ok is FALSE where int raises ValueError
_hex_to_rgb(hex_color) ==
    LET stripped == LStrip(hex_color, "#")
        hex == IF Len(stripped) = 3 THEN Doubled(stripped) ELSE stripped
    IN  IF IntRaises(Slice(hex, 0, 2)) \/ IntRaises(Slice(hex, 2, 4))
                \/ IntRaises(Slice(hex, 4, 6))
        THEN [ok |-> FALSE, r |-> 0, g |-> 0, b |-> 0]
        ELSE [ok |-> TRUE, r |-> HexNumber(Slice(hex, 0, 2)),
              g |-> HexNumber(Slice(hex, 2, 4)), b |-> HexNumber(Slice(hex, 4, 6))]

\* 'rgba' in color.lower()
HasRgba(color) == \E i \in 1..Len(color) : color[i] \in {"rgba(", "RGBA("}

\* f"rgba({r}, {g}, {b}, {opacity})"
Rgba(rgb, opacity) ==
    <<"rgba(">> \o Digits(rgb.r) \o <<",", " ">> \o Digits(rgb.g) \o <<",", " ">>
        \o Digits(rgb.b) \o <<",", " ">> \o opacity \o <<")">>

\* one stop of a gradient: [ok, css], css the f"{color} {offset}" appended
StopOf(stop) ==
    LET offset  == Get(stop, "offset", <<"0", "%">>)
        color   == Get(stop, "stop-color", <<"#", "0", "0", "0">>)
        opacity == Get(stop, "stop-opacity", <<"1">>)
    IN  IF ~HasRgba(color) /\ opacity # <<"1">> /\ StartsWith(color, "#")
        THEN [ok |-> _hex_to_rgb(color).ok,
              css |-> Rgba(_hex_to_rgb(color), opacity) \o <<" ">> \o offset]
        ELSE [ok |-> TRUE, css |-> color \o <<" ">> \o offset]

\* the stops of a gradient, in order
StopsOf(gradient) ==
    [i \in 1..Len(FindAllNamed(gradient, "stop")) |-> StopOf(FindAllNamed(gradient, "stop")[i])]

\* float(x.rstrip('%')) if '%' in x else float(x)
EndPoint(x) == ParseFloat(IF Contains(x, "%") THEN RStrip(x, "%") ELSE x)

\* SVG2HTML._calculate_angle: [ok, css]; ok is FALSE where float raises
_calculate_angle(x1, y1, x2, y2) ==
    [ok |-> EndPoint(x1).ok /\ EndPoint(y1).ok /\ EndPoint(x2).ok /\ EndPoint(y2).ok,
     css |-> FormatFixed((90 * Scale - _atan2_degrees(EndPoint(y2).v - EndPoint(y1).v,
                                                     EndPoint(x2).v - EndPoint(x1).v))
                             % (360 * Scale), 1) \o <<"deg">>]

\* ", " + ", ".join(stops) + ")"
StopList(stops) ==
    <<",", " ">> \o Join([i \in 1..Len(stops) |-> stops[i].css], <<",", " ">>) \o <<")">>

\* SVG2HTML._convert_gradient_to_css: [ok, css]; ok is FALSE where the
\* call raises ValueError
_convert_gradient_to_css(gradient) ==
    IF gradient.tag = "linearGradient"
    THEN LET angle == _calculate_angle(Get(gradient, "x1", <<"0", "%">>),
                                       Get(gradient, "y1", <<"0", "%">>),
                                       Get(gradient, "x2", <<"1", "0", "0", "%">>),
                                       Get(gradient, "y2", <<"1", "0", "0", "%">>))
         IN  IF ~angle.ok THEN [ok |-> FALSE, css |-> <<>>]
             ELSE [ok |-> \A i \in 1..Len(StopsOf(gradient)) : StopsOf(gradient)[i].ok,
                   css |-> <<"linear-gradient(">> \o angle.css \o StopList(StopsOf(gradient))]
    ELSE IF gradient.tag = "radialGradient"
    THEN [ok |-> \A i \in 1..Len(StopsOf(gradient)) : StopsOf(gradient)[i].ok,
          css |-> <<"radial-gradient(circle at ">> \o Get(gradient, "cx", <<"5", "0", "%">>)
                      \o <<" ">> \o Get(gradient, "cy", <<"5", "0", "%">>)
                      \o StopList(StopsOf(gradient))]
    ELSE [ok |-> TRUE, css |-> <<>>]

\* f"url(#{gradient_id})"
UrlOf(gradient_id) == <<"url(#">> \o gradient_id \o <<")">>

\* the gradient definitions under the root, in document order
GradientTags(tags) ==
    SelectSeq(tags, LAMBDA e : e.tag \in {"linearGradient", "radialGradient"}
                               /\ Get(e, "id", <<>>) # <<>>)

RECURSIVE GradientsOf(_, _)
\* the gradients dict of _convert_svg_to_html_full: [ok, dict]; ok is FALSE
\* where a _convert_gradient_to_css call raises
GradientsOf(tags, acc) ==
    IF tags = <<>> THEN acc
    ELSE IF ~_convert_gradient_to_css(Head(tags)).ok THEN [ok |-> FALSE, dict |-> <<>>]
    ELSE GradientsOf(Tail(tags),
                     [ok |-> TRUE,
                      dict |-> DictSet(acc.dict, UrlOf(Get(Head(tags), "id", <<>>)),
                                       _convert_gradient_to_css(Head(tags)).css)])

RECURSIVE ReplaceGradients(_, _)
\* the gradient references of element_css replaced, one dict entry after
\* the other
ReplaceGradients(element_css, gradients) ==
    IF gradients = <<>> THEN element_css
    ELSE ReplaceGradients(Replace(element_css, Head(gradients)[1], Head(gradients)[2]),
                          Tail(gradients))

\* find(id=gradient_id): the first tags with that id, <<>> when there is none
FindById(tags, gradient_id) ==
    LET found == SelectSeq(tags, LAMBDA e : Get(e, "id", <<>>) = gradient_id)
    IN  IF found = <<>> THEN <<>> ELSE <<Head(found)>>

----------------------------------------------------------------------------
(* CSS optimisation *)

\* the grouping test without its test of the first part
IsGrouped_AnyFirstPart(selector) ==
    /\ Contains(selector, "-") /\ Contains(selector, "element")
    /\ Len(Split(selector, "-")) >= 2

\* whether the grouping loop of _optimize_css takes a selector: it holds
\* '-' and 'element', splits into two parts or more, and 'element' is in parts[0]
IsGrouped(selector) ==
    /\ Contains(selector, "-") /\ Contains(selector, "element")
    /\ Len(Split(selector, "-")) >= 2
    /\ Contains(Split(selector, "-")[1], "element")

\* the element_type the grouping loop takes from a selector: parts[1]
ElementTypeOf(selector) == Split(selector, "-")[2]

RECURSIVE GroupByType(_, _)
\* element_types: element_type -> the selectors of that type, in order
GroupByType(selectors, element_types) ==
    IF selectors = <<>> THEN element_types
    ELSE LET selector == Head(selectors)
             t == ElementTypeOf(selector)
         IN  IF IsGrouped(selector)
             THEN GroupByType(Tail(selectors),
                      DictSet(element_types, t,
                              IF HasKey(element_types, t)
                              THEN Append(Lookup(element_types, t), selector)
                              ELSE <<selector>>))
             ELSE GroupByType(Tail(selectors), element_types)

\* common_props of one type: the (prop, value) of the first selector that
\* every selector of the type has
CommonOf(styles, selectors) ==
    SelectSeq(Lookup(styles, selectors[1]),
              LAMBDA kv : \A i \in 1..Len(selectors) :
                  LET props == Lookup(styles, selectors[i])
                  IN  HasKey(props, kv[1]) /\ Lookup(props, kv[1]) = kv[2])

\* f"[data-type='{element_type}']"
TypeSelector(element_type) == <<"[", "data-type='">> \o element_type \o <<"']">>

RECURSIVE RemoveProps(_, _)
\* del props[prop] for every prop of common_props that props has
RemoveProps(props, common_props) ==
    IF common_props = <<>> THEN props
    ELSE RemoveProps(DictDel(props, Head(common_props)[1]), Tail(common_props))

RECURSIVE OptimizeTypes(_, _, _)
\* the loop over element_types: acc.optimized and acc.common_styles
OptimizeTypes(styles, element_types, acc) ==
    IF element_types = <<>> THEN acc
    ELSE LET element_type == Head(element_types)[1]
             selectors    == Head(element_types)[2]
             common_props == CommonOf(styles, selectors)
         IN  IF Len(selectors) < 2 \/ common_props = <<>>
             THEN OptimizeTypes(styles, Tail(element_types), acc)
             ELSE OptimizeTypes(styles, Tail(element_types),
                      [optimized |->
                           [i \in 1..Len(acc.optimized) |->
                               IF \E j \in 1..Len(selectors) : selectors[j] = acc.optimized[i][1]
                               THEN <<acc.optimized[i][1],
                                      RemoveProps(acc.optimized[i][2], common_props)>>
                               ELSE acc.optimized[i]],
                       common_styles |->
                           DictSet(acc.common_styles, TypeSelector(element_type), common_props)])

\* optimized.update(common_styles)
Merged(acc) == DictUpdate(acc.optimized, acc.common_styles)

\* SVG2HTML._optimize_css
_optimize_css(styles) ==
    Merged(OptimizeTypes(styles,
                         GroupByType([i \in 1..Len(styles) |-> styles[i][1]], <<>>),
                         [optimized |-> styles, common_styles |-> <<>>]))

\* the selector text of the rule emitted for a key of optimized_css
RuleSelector(selector) ==
    IF StartsWith(selector, ".") THEN selector
    ELSE IF StartsWith(selector, "[") THEN <<".svg-element">> \o selector
    ELSE <<".">> \o selector

RECURSIVE EmitRules(_)
\* the rules appended to css for optimized_css, empty ones skipped
EmitRules(optimized) ==
    IF optimized = <<>> THEN <<>>
    ELSE (IF Head(optimized)[2] = <<>> THEN <<>>
          ELSE <<[k |-> "rule", sel |-> RuleSelector(Head(optimized)[1]),
                  decls |-> Head(optimized)[2]]>>)
         \o EmitRules(Tail(optimized))

----------------------------------------------------------------------------
(* Output nodes and documents.  The output text is a sequence of tokens:   *)
(*   [k |-> "raw", s]        fixed markup                                   *)
(*   [k |-> "div", class]    the start tag of a div without content         *)
(*   [k |-> "script", js]    a script element                               *)
(*   [k |-> "rule", sel, decls]   one rule of the style element             *)
(*   [k |-> "node", class, data_type, style, string]   a div with content   *)
(* and, in embed mode, the tokens of the input.                             *)

Raw(s) == [k |-> "raw", s |-> s]

\* f"svg-element-{element_id}"
ElementClass(id) == <<"svg", "-", "element", "-">> \o Digits(id)

\* f"{name}: {value};"
StyleDecl(name, value) == Decl(name, value) \o <<";">>

\* style += " ..." when the node has a style, style = "..." otherwise
AddStyle(style, more) == IF style = <<>> THEN more ELSE style \o <<" ">> \o more

\* the style of a shape whose fill references the gradient id: tags are
\* the tags under the root.  The conversion of a gradient that has an id
\* cannot raise here, it would have raised where the gradients dict is built.
GradientStyle(fill, found) ==
    IF found # <<>>
    THEN StyleDecl("background", _convert_gradient_to_css(found[1]).css)
    ELSE StyleDecl("background-color", fill)

\* the fill part of _create_html_element for a shape
FillStyle(svg_element, tags) ==
    LET fill == Get(svg_element, "fill", None)
    IN  IF fill # <<>> /\ fill # <<"none">>
        THEN IF Head(fill) = "url(#"
             THEN GradientStyle(fill, FindById(tags, SubSeq(fill, 2, Len(fill) - 1)))
             ELSE StyleDecl("background-color", fill)
        ELSE <<>>

\* the data part of _create_html_element for a path, a polyline, a polygon
DataStyle(svg_element, tag_name, style, precision) ==
    CASE tag_name = "path" ->
            LET path_data == Get(svg_element, "d", <<>>)
            IN  IF path_data # <<>>
                THEN AddStyle(style, StyleDecl("--path-data", Quoted(PathText(path_data))))
                ELSE style
      [] tag_name = "polyline" ->
            LET points == Get(svg_element, "points", <<>>)
            IN  IF points # <<>>
                THEN AddStyle(style, StyleDecl("--polyline-points", Quoted(points)))
                        \o <<" ">> \o StyleDecl("--polyline-stroke",
                                                Quoted(Get(svg_element, "stroke", <<"black">>)))
                        \o <<" ">> \o StyleDecl("--polyline-stroke-width",
                                                Quoted(Get(svg_element, "stroke-width", <<"1">>)))
                ELSE style
      [] tag_name = "polygon" ->
            LET point_list == ParsePoints(Get(svg_element, "points", <<>>))
            IN  IF point_list # <<>>
                THEN AddStyle(style, ClipPath(point_list, precision) \o <<";">>)
                ELSE style
      [] OTHER -> style

ShapeTags == {"rect", "circle", "ellipse", "line", "path", "polygon", "polyline"}

\* SVG2HTML._create_html_element: <<node>>, or <<>> for None
_create_html_element(svg_element, tag_name, element_class, precision, tags) ==
    IF tag_name \in ShapeTags
    THEN <<[k |-> "node", class |-> element_class \o <<" ", "svg-element">>,
            data_type |-> tag_name,
            style |-> DataStyle(svg_element, tag_name, FillStyle(svg_element, tags), precision),
            string |-> <<>>]>>
    ELSE IF tag_name = "text"
    THEN LET fill == Get(svg_element, "fill", <<"#000000">>)
         IN  <<[k |-> "node", class |-> element_class \o <<" ", "svg-element">>,
                data_type |-> "text",
                style |-> IF fill # <<>> /\ fill # <<"none">> THEN StyleDecl("color", fill) ELSE <<>>,
                string |-> TextContent(svg_element)]>>
    ELSE IF tag_name = "foreignObject"
    THEN <<[k |-> "node", class |-> element_class \o <<" ", "svg-element">>,
            data_type |-> "foreignObject", style |-> <<>>, string |-> <<>>]>>
    ELSE <<>>

\* the tags the element loop skips
SkippedTags == {"svg", "defs", "style", "linearGradient", "radialGradient", "stop"}

\* the counter, were it kept from the call before
CarriedElementId(carried) == carried

\* the value element_id is given before the element loop
InitialElementId(carried) == 0

\* the value element_styles is given before the element loop
InitialElementStyles(carried) == <<>>

\* the end of one iteration, with the node put before those of the
\* iterations before
StoreElement_Prepend(element, tag_name, id, element_css, precision, scope, acc) ==
    IF element_css = <<>> THEN [acc EXCEPT !.element_id = id]
    ELSE [element_id |-> id,
          element_styles |-> DictSet(acc.element_styles, ElementClass(id),
              _parse_css_properties(ReplaceGradients(element_css, scope.gradients))),
          nodes |-> _create_html_element(element, tag_name, ElementClass(id), precision,
                                         scope.tags)
              \o acc.nodes]

\* the end of one iteration: when element_css is not empty its gradient
\* references are replaced, the declaration set is stored and the node
\* appended.  scope holds the gradients dict and the tags under the root.
StoreElement(element, tag_name, id, element_css, precision, scope, acc) ==
    IF element_css = <<>> THEN [acc EXCEPT !.element_id = id]
    ELSE [element_id |-> id,
          element_styles |-> DictSet(acc.element_styles, ElementClass(id),
              _parse_css_properties(ReplaceGradients(element_css, scope.gradients))),
          nodes |-> acc.nodes
              \o _create_html_element(element, tag_name, ElementClass(id), precision,
                                      scope.tags)]

\* one iteration of the element loop
ProcessElement(element, min_x, min_y, precision, scope, acc) ==
    IF element.tag \in SkippedTags THEN acc
    ELSE StoreElement(element, element.tag, acc.element_id + 1,
                      _extract_element_style(element, element.tag, min_x, min_y, precision),
                      precision, scope, acc)

RECURSIVE ProcessElements(_, _, _, _, _, _)
\* the element loop of _convert_svg_to_html_full
ProcessElements(elements, min_x, min_y, precision, scope, acc) ==
    IF elements = <<>> THEN acc
    ELSE ProcessElements(Tail(elements), min_x, min_y, precision, scope,
                         ProcessElement(Head(elements), min_x, min_y, precision, scope, acc))

\* SVG2HTML._extract_dimension
_extract_dimension(value) ==
    LET i == IndexOf(value, ".")
        undotted == IF i = 0 THEN value
                    ELSE SubSeq(value, 1, i - 1) \o SubSeq(value, i + 1, Len(value))
    IN  IF value # <<>> /\ undotted # <<>> /\ \A j \in 1..Len(undotted) : IsDigit(undotted[j])
        THEN value \o <<"px">> ELSE value

\* value.replace('px', '')
DropPx(value) == SelectSeq(value, LAMBDA tok : tok # "px")

\* the view box of the root: [ok, min_x, min_y]; ok is FALSE where a float()
\* of the view box code raises ValueError
ViewBoxOf(svg_tag) ==
    LET vb_parts == SplitWs(Get(svg_tag, "viewBox", <<>>))
        w == Get(svg_tag, "width", <<>>)
        h == Get(svg_tag, "height", <<>>)
    IN  IF Len(vb_parts) >= 4
        THEN [ok |-> \A i \in 1..4 : ParseFloat(vb_parts[i]).ok,
              min_x |-> ParseFloat(vb_parts[1]).v, min_y |-> ParseFloat(vb_parts[2]).v]
        ELSE [ok |-> /\ (w = <<>> \/ ParseFloat(DropPx(w)).ok)
                     /\ (h = <<>> \/ ParseFloat(DropPx(h)).ok),
              min_x |-> 0, min_y |-> 0]

\* SVG2HTML._generate_path_js: the same script text for every document
_generate_path_js == <<"document.addEventListener('DOMContentLoaded', ...)">>

\* the message of the ValueError raised when there is no svg tag (the
\* source's messages and title are Chinese text, given here in English)
NoSvgMessage == <<"invalid SVG file: no <svg> tag found">>

Container == [k |-> "div", class |-> <<"svg-container">>]

Raised(type, message) ==
    [ok |-> FALSE, html |-> <<>>, error |-> <<type>> \o message,
     element_id |-> 0, element_styles |-> <<>>, optimized_css |-> <<>>]

\* the three rules css starts with
FixedRules(width, height) ==
    << [k |-> "rule", sel |-> <<"body, html">>,
        decls |-> << <<<<"margin">>, <<"0">>>>, <<<<"padding">>, <<"0">>>> >>],
       [k |-> "rule", sel |-> <<".svg-container">>,
        decls |-> << <<<<"position">>, <<"relative">>>>, <<<<"width">>, width>>,
                     <<<<"height">>, height>>, <<<<"overflow">>, <<"hidden">>>> >>],
       [k |-> "rule", sel |-> <<".svg-element">>,
        decls |-> << <<<<"position">>, <<"absolute">>>> >>] >>

\* str(html_doc), with the values the locals end with
FullDocument(width, height, done, optimized) ==
    [ok |-> TRUE,
     html |-> << Raw("<!DOCTYPE html>"), Raw("<html><head>"),
                 Raw("<meta charset=\"UTF-8\"/>"),
                 Raw("<meta content=\"width=device-width, initial-scale=1.0\" name=\"viewport\"/>"),
                 Raw("<title>SVG to HTML</title>") >>
              \o (IF _generate_path_js # <<>>
                  THEN <<[k |-> "script", js |-> _generate_path_js]>> ELSE <<>>)
              \o <<Raw("<style>")>> \o FixedRules(width, height) \o EmitRules(optimized)
              \o <<Raw("</style>"), Raw("</head><body>"), Container>>
              \o done.nodes
              \o <<Raw("</div>"), Raw("</body></html>")>>,
     error |-> <<>>,
     element_id |-> done.element_id,
     element_styles |-> done.element_styles,
     optimized_css |-> optimized]

\* the conversion after the element loop
FullOptimized(width, height, done) ==
    FullDocument(width, height, done, _optimize_css(done.element_styles))

\* the conversion after the gradients dict is built
FullWithGradients(inst, text, carried, svg_tag, vb, tags, gradients) ==
    IF ~gradients.ok THEN Raised("ValueError", <<"invalid literal">>)
    ELSE FullOptimized(
             _extract_dimension(Get(svg_tag, "width", <<"1", "0", "0", "%">>)),
             _extract_dimension(Get(svg_tag, "height", <<"1", "0", "0", "%">>)),
             ProcessElements(tags, vb.min_x, vb.min_y, inst.precision,
                 [gradients |-> gradients.dict, tags |-> tags],
                 [element_id |-> InitialElementId(carried.element_id),
                  element_styles |-> InitialElementStyles(carried.element_styles),
                  nodes |-> <<>>]))

\* the conversion after the view box is read
FullInViewBox(inst, text, carried, svg_tag, vb, tags) ==
    IF ~vb.ok THEN Raised("ValueError", <<"could not convert string to float">>)
    ELSE FullWithGradients(inst, text, carried, svg_tag, vb, tags,
                           GradientsOf(GradientTags(tags), [ok |-> TRUE, dict |-> <<>>]))

\* the conversion after the svg tag is found
FullOfRoot(inst, text, carried, svg_tag) ==
    FullInViewBox(inst, text, carried, svg_tag, ViewBoxOf(svg_tag), FindAll(text))

\* SVG2HTML._convert_svg_to_html_full, with the values its locals end with
_convert_svg_to_html_full(inst, text, carried) ==
    IF FindSvg(text) = 0 THEN Raised("ValueError", NoSvgMessage)
    ELSE FullOfRoot(inst, text, carried, text[FindSvg(text)])

\* the svg_content reparsed and written back, as str(svg_tag) gives it: the
\* root element without what precedes it
Reserialized(text) == SubSeq(text, FindSvg(text), Len(text))

\* what _convert_svg_to_html_embed appends between the wrapper's tags: svg_content
EmbeddedSvg(text) == text

\* SVG2HTML._convert_svg_to_html_embed
_convert_svg_to_html_embed(inst, text, carried) ==
    IF FindSvg(text) = 0 THEN Raised("ValueError", NoSvgMessage)
    ELSE [ok |-> TRUE,
          html |-> << Raw("<!DOCTYPE html>\n<html lang=\"zh-CN\">\n<head>\n"),
                      Raw("  <meta charset=\"UTF-8\">\n"),
                      Raw("  <meta name=\"viewport\" content=\"width=device-width, initial-scale=1.0\">\n"),
                      Raw("  <title>SVG to HTML</title>\n"),
                      Raw("  <style>\n"),
                      Raw("    body, html { margin: 0; padding: 0; overflow: hidden; }\n"),
                      Raw("    .svg-container { width: 100%; height: 100%; }\n"),
                      Raw("  </style>\n"),
                      Raw("</head>\n<body>\n") >>
                   \o (IF inst.add_wrapper THEN <<Container>> ELSE <<>>)
                   \o EmbeddedSvg(text)
                   \o (IF inst.add_wrapper THEN <<Raw("</div>\n")>> ELSE <<>>)
                   \o <<Raw("</body>\n</html>")>>,
          error |-> <<>>,
          element_id |-> carried.element_id,
          element_styles |-> carried.element_styles,
          optimized_css |-> carried.optimized_css]

\* SVG2HTML.convert_svg_to_html
convert_svg_to_html(inst, text, carried) ==
    IF inst.conversion_mode = "embed" THEN _convert_svg_to_html_embed(inst, text, carried)
    ELSE IF inst.conversion_mode = "convert" THEN _convert_svg_to_html_full(inst, text, carried)
    ELSE Raised("ValueError", <<"unknown conversion mode">>)

----------------------------------------------------------------------------
(* Inputs *)

\* most elements under the root of an input document
MaxElems == 2

\* largest precision option
MaxPrecision == 6

\* the decimal text of the float i.f, f in ten-thousandths
Dec(i, f) ==
    Digits(i) \o (IF f = 0 THEN <<>> ELSE <<".">> \o RStrip(PadDigits(f, 4), "0"))

\* an element with child elements
ElemOver(tag, attrs, text, children) ==
    [k |-> "elem", tag |-> tag, attrs |-> attrs, text |-> text, children |-> children]

Elem(tag, attrs, text) == ElemOver(tag, attrs, text, <<>>)

PNum(v) == [k |-> "num", v |-> v]

PCmd(c) == [k |-> "cmd", c |-> c]

\* the attribute name with the value v, no attribute when v is None
Attr(name, v) == IF v = None THEN [n \in {} |-> <<>>] ELSE [n \in {name} |-> v]

ElementPool ==
    { Elem("rect", [x |-> Dec(10, 0), y |-> Dec(20, 0), width |-> Dec(30, 0),
                    height |-> Dec(40, 0), fill |-> <<"red">>], <<>>),
      Elem("rect", [x |-> Dec(50, 0), y |-> Dec(20, 0), width |-> Dec(30, 0),
                    height |-> Dec(40, 0), fill |-> <<"red">>], <<>>),
      Elem("circle", [cx |-> Dec(50, 0), cy |-> Dec(50, 0), r |-> Dec(25, 1250)], <<>>),
      Elem("line", [x1 |-> Dec(0, 0), y1 |-> Dec(0, 0), x2 |-> Dec(10, 0), y2 |-> Dec(0, 0),
                    stroke |-> <<"black">>], <<>>),
      Elem("polygon", [points |-> Dec(0, 0) \o <<",">> \o Dec(0, 0) \o <<" ">>
                                  \o Dec(30, 0) \o <<",">> \o Dec(0, 0) \o <<" ">>
                                  \o Dec(10, 0) \o <<",">> \o Dec(20, 0),
                       fill |-> <<"blue">>], <<>>),
      Elem("path", [d |-> <<PCmd("M"), PNum(Num(10, 0)), PNum(Num(20, 0)),
                            PCmd("L"), PNum(Num(30, 5000)), PNum(Num(40, 0))>>], <<>>),
      Elem("text", [x |-> Dec(5, 0), y |-> Dec(30, 0), fill |-> <<"green">>], <<"Hi">>) }

Bodies == UNION {[1..n -> ElementPool] : n \in 0..MaxElems}

OpenSvg(attrs) == [k |-> "open", tag |-> "svg", attrs |-> attrs]

CloseSvg == [k |-> "close", tag |-> "svg"]

\* the text before a document's elements: a root with a view box at the
\* origin, or an XML declaration and a root whose view box is elsewhere
Prologs ==
    { <<OpenSvg([viewBox |-> <<"0", " ", "0", " ", "4", "0", "0", " ", "3", "0", "0">>,
                 width |-> <<"4", "0", "0">>, height |-> <<"3", "0", "0">>])>>,
      <<Raw("<?xml version=\"1.0\" encoding=\"UTF-8\"?>\n"),
        OpenSvg([viewBox |-> <<"1", "0", " ", "2", "0", " ", "1", "0", "0", " ", "1", "0", "0">>])>> }

\* documents without an svg tag
RootlessDocuments == { <<>>, <<Raw("<html><body>no drawing</body></html>")>> }

Documents ==
    {p \o b \o <<CloseSvg>> : p \in Prologs, b \in Bodies} \cup RootlessDocuments

\* SVG2HTML.__init__
Instances ==
    [preserve_text : {TRUE}, add_wrapper : BOOLEAN,
     conversion_mode : {"embed", "convert"}, precision : 0..MaxPrecision]

NoResult == [ok |-> FALSE, html |-> <<>>, error |-> <<>>]

----------------------------------------------------------------------------
(* The converter instance *)

Pending == <<"pending">>

PathIdle == bounds_input = <<>> /\ bounds_result = Pending

BatchIdle ==
    /\ files = <<>> /\ idx = 0 /\ success_count = 0 /\ fail_count = 0
    /\ log = <<>> /\ outputs = <<>> /\ batch_state = "idle"

FmtIdle == fmt_value = 0 /\ fmt_text = Pending

GuiIdle ==
    /\ workers = <<>> /\ signals = <<>>
    /\ progress_visible = FALSE /\ status_message = ""

ConvIdle ==
    /\ svg_content = <<>>
    /\ result = NoResult
    /\ element_id = 0
    /\ element_styles = <<>>
    /\ optimized_css = <<>>
    /\ calls = 0
    /\ history = <<>>

Init == self \in Instances /\ ConvIdle /\ PathIdle /\ BatchIdle /\ FmtIdle /\ GuiIdle

\* the locals a call finds, were they kept from the call before
Carried ==
    [element_id |-> element_id, element_styles |-> element_styles,
     optimized_css |-> optimized_css]

\* the call returns (or raises) r
Returns(d, r) ==
    /\ svg_content' = d
    /\ result' = [ok |-> r.ok, html |-> r.html, error |-> r.error]
    /\ element_id' = r.element_id
    /\ element_styles' = r.element_styles
    /\ optimized_css' = r.optimized_css
    /\ calls' = calls + 1
    /\ history' = Append(history,
                         [content |-> d,
                          result |-> [ok |-> r.ok, html |-> r.html, error |-> r.error]])
    /\ UNCHANGED <<self, pathVars, batchVars, fmtVars, guiVars>>

\* one call of convert_svg_to_html(d) on the instance
Convert(d) == Returns(d, convert_svg_to_html(self, d, Carried))

Next == \E d \in Documents : calls = 0 /\ Convert(d)

Spec == Init /\ [][Next]_vars

----------------------------------------------------------------------------
(* Reading a generated document *)

RulesOf(html) == SelectSeq(html, LAMBDA tok : tok.k = "rule")

NodesOf(html) == SelectSeq(html, LAMBDA tok : tok.k = "node")

\* the declarations of the rule with selector sel, <<>> when none is emitted
DeclsOf(html, sel) ==
    LET rules == RulesOf(html)
    IN  IF \E i \in 1..Len(rules) : rules[i].sel = sel
        THEN rules[CHOOSE i \in 1..Len(rules) : rules[i].sel = sel].decls
        ELSE <<>>

\* the selector of the instance rule of element id, of the shared rule of a kind
InstanceSel(id) == <<".">> \o ElementClass(id)

SharedSel(kind) == <<".svg-element">> \o TypeSelector(<<kind>>)

IsSharedSel(sel) == Len(sel) >= 2 /\ sel[1] = ".svg-element" /\ sel[2] = "["

Pairs(d) == {d[i] : i \in 1..Len(d)}

\* the declarations a node gets from a shared rule and then an instance rule
Overlay(shared, instance) ==
    {kv \in Pairs(shared) : ~HasKey(instance, kv[1])} \cup Pairs(instance)

\* the elements of the input that the element loop numbers, in order
Retained(text) == SelectSeq(FindAll(text), LAMBDA e : e.tag \notin SkippedTags)

\* the ids of the elements that got a declaration set
StyleIds == {i \in 1..element_id : HasKey(element_styles, ElementClass(i))}

KindOf(i) == Retained(svg_content)[i].tag

StylesOf(i) == Lookup(element_styles, ElementClass(i))

FullDone == calls > 0 /\ result.ok /\ self.conversion_mode = "convert"

EmbedDone == calls > 0 /\ result.ok /\ self.conversion_mode = "embed"

\* the pairs every element of the set members has
CommonPairs(members) ==
    {kv \in UNION {Pairs(StylesOf(i)) : i \in members} :
        \A i \in members : kv \in Pairs(StylesOf(i))}

\* whether text is a contiguous block of html that starts at position i
BlockAt(html, text, i) ==
    i + Len(text) - 1 <= Len(html) /\ SubSeq(html, i, i + Len(text) - 1) = text

\* the number written at a point of a value has 1..p fraction digits, the
\* last of them not a zero
PointOk(value, i, p) ==
    LET n == Cardinality({j \in (i + 1)..Len(value) :
                            \A m \in (i + 1)..j : IsDigit(value[m])})
    IN  n >= 1 /\ n <= p /\ value[i + n] # "0"

NumbersOk(value, p) == \A i \in 1..Len(value) : value[i] = "." => PointOk(value, i, p)

----------------------------------------------------------------------------
(* Claims about one conversion (Spec) *)

\* C1: in full conversion, for each kind with two instances or more, every
\* (property, value) pair all instances of the kind have is in a shared
\* rule of the kind and in none of their instance rules.
C1_SharedRulePerKind ==
    FullDone =>
        \A kind \in {KindOf(i) : i \in StyleIds} :
            LET members == {i \in StyleIds : KindOf(i) = kind}
            IN  Cardinality(members) >= 2 =>
                    /\ CommonPairs(members) \subseteq Pairs(DeclsOf(result.html, SharedSel(kind)))
                    /\ \A i \in members :
                          Pairs(DeclsOf(result.html, InstanceSel(i))) \cap CommonPairs(members) = {}

\* C2: for every element, the shared rule of its kind overlaid by its
\* instance rule gives exactly the declaration set computed for it before
\* the optimisation.
C2_OptimizationPreserves ==
    FullDone =>
        \A i \in StyleIds :
            Overlay(DeclsOf(result.html, SharedSel(KindOf(i))),
                    DeclsOf(result.html, InstanceSel(i))) = Pairs(StylesOf(i))

\* a full conversion of a document with two elements of one kind that
\* share a declaration
C2_Witness ==
    /\ FullDone
    /\ \E i, j \in StyleIds :
          i # j /\ KindOf(i) = KindOf(j) /\ CommonPairs({i, j}) # {}

\* C4: every number written into a declaration of the stylesheet has at
\* most `precision` digits after the point, no trailing fractional zero and
\* no trailing point (path data is the source's text, not a written number).
C4_NumbersFollowPrecision ==
    FullDone =>
        \A i \in 1..Len(RulesOf(result.html)) :
            LET decls == RulesOf(result.html)[i].decls
            IN  \A j \in 1..Len(decls) :
                    decls[j][1] # <<"--path-data">> => NumbersOk(decls[j][2], self.precision)

\* C9: with add_wrapper the body content is wrapped in one svg-container
\* node; without it the output has no svg-container node and the converted
\* content is still there; in embed and in full conversion mode.
C9_WrapperFollowsOption ==
    (calls > 0 /\ result.ok) =>
        LET n == Cardinality({i \in 1..Len(result.html) : result.html[i] = Container})
        IN  /\ self.add_wrapper => n = 1
            /\ ~self.add_wrapper => n = 0
            /\ EmbedDone => \E i \in 1..Len(result.html) : BlockAt(result.html, svg_content, i)
            /\ FullDone => Len(NodesOf(result.html)) = Cardinality(StyleIds)

\* C10: in embed mode the output is a complete HTML document that holds
\* the input text unchanged, as one block in the body.
C10_EmbedVerbatim ==
    EmbedDone =>
        /\ result.html[1] = Raw("<!DOCTYPE html>\n<html lang=\"zh-CN\">\n<head>\n")
        /\ result.html[Len(result.html)] = Raw("</body>\n</html>")
        /\ \E i \in 1..Len(result.html) :
              /\ BlockAt(result.html, svg_content, i)
              /\ \E j \in 1..(i - 1) : result.html[j] = Raw("</head>\n<body>\n")

\* an embed conversion of a document with a prolog before its root and an
\* element under it
C10_Witness ==
    /\ EmbedDone
    /\ Len(svg_content) >= 4
    /\ svg_content[1].k = "raw"

----------------------------------------------------------------------------
(* The optimiser on its own (SpecOptimize): _optimize_css applied to a     *)
(* dictionary of declaration sets, and the rules written from its result.  *)

\* most selectors of a dictionary given to the optimiser
MaxRules == 2

Sel(prefix, kind, n) == <<prefix, "-", kind, "-", n>>

\* selectors of the form the conversion builds (svg-element-N) and of the
\* form the grouping loop takes (element-<type>-N)
SelectorPool ==
    { Sel("svg", "element", "1"), Sel("element", "rect", "1"),
      Sel("element", "rect", "2"), Sel("element", "circle", "1") }

WidthDecl == <<<<"width">>, <<"10", "px">>>>

ColorDecl(c) == <<<<"background-color">>, <<c>>>>

PropsPool ==
    { <<>>, <<ColorDecl("red")>>, <<WidthDecl, ColorDecl("red")>>,
      <<WidthDecl, ColorDecl("blue")>> }

\* dictionaries: distinct selectors in any insertion order
StyleInputs ==
    UNION { { d \in [1..n -> SelectorPool \X PropsPool] :
                \A i, j \in 1..n : i # j => d[i][1] # d[j][1] } : n \in 0..MaxRules }

DefaultInstance ==
    [preserve_text |-> TRUE, add_wrapper |-> TRUE,
     conversion_mode |-> "convert", precision |-> 2]

InitOptimize ==
    /\ self = DefaultInstance
    /\ svg_content = <<>> /\ result = NoResult /\ element_id = 0
    /\ element_styles \in StyleInputs
    /\ optimized_css = <<>> /\ calls = 0 /\ history = <<>>
    /\ PathIdle /\ BatchIdle /\ FmtIdle /\ GuiIdle

\* optimized_css = self._optimize_css(element_styles) and the loop that
\* writes a rule for each of its entries
Optimize ==
    /\ calls = 0
    /\ optimized_css' = _optimize_css(element_styles)
    /\ result' = [ok |-> TRUE, html |-> EmitRules(optimized_css'), error |-> <<>>]
    /\ calls' = calls + 1
    /\ UNCHANGED <<self, svg_content, element_id, element_styles, history,
                   pathVars, batchVars, fmtVars, guiVars>>

SpecOptimize == InitOptimize /\ [][Optimize]_vars

----------------------------------------------------------------------------
(* The path bounds on their own (SpecPath) *)

\* most tokens of a path data string
MaxPathTokens == 3

PathTokens ==
    { PCmd("M"), PCmd("L"), PCmd("Z"), PCmd("A"), PNum(Num(10, 0)), PNum(Num(2, 5000)) }

PathInputs == UNION {[1..n -> PathTokens] : n \in 0..MaxPathTokens}

InitPath ==
    /\ self = DefaultInstance
    /\ ConvIdle /\ BatchIdle /\ FmtIdle /\ GuiIdle
    /\ bounds_input \in PathInputs
    /\ bounds_result = Pending

\* bounds = self._calculate_path_bounds(path_data)
CalculateBounds ==
    /\ bounds_result = Pending
    /\ bounds_result' = _calculate_path_bounds(bounds_input)
    /\ UNCHANGED <<bounds_input, self, convVars, batchVars, fmtVars, guiVars>>

SpecPath == InitPath /\ [][CalculateBounds]_vars

----------------------------------------------------------------------------
(* Claims about the optimiser (SpecOptimize) and the path bounds (SpecPath) *)

C5_BoundsAlwaysABox ==
    bounds_result # Pending =>
        /\ bounds_result # None
        /\ Len(bounds_result) = 4
        /\ bounds_result[3] >= bounds_result[1]
        /\ bounds_result[4] >= bounds_result[2]

----------------------------------------------------------------------------
(* Batch conversion (SpecBatch): convert_directory over the files os.walk  *)
(* lists, one loop iteration per step.                                     *)

\* most files under the input directory
MaxFiles == 2

\* the content of an output file that exists before the batch
OldOutput == <<Raw("<html>old</html>")>>

\* no file at the output path
Absent == <<Raw("(absent)")>>

GoodDocument ==
    <<OpenSvg([viewBox |-> <<"0", " ", "0", " ", "4", "0", "0", " ", "3", "0", "0">>]),
      Elem("rect", [x |-> Dec(10, 0), y |-> Dec(20, 0), width |-> Dec(30, 0),
                    height |-> Dec(40, 0), fill |-> <<"red">>], <<>>),
      CloseSvg>>

RootlessDocument == <<Raw("<html><body>no drawing</body></html>")>>

\* a file of the input directory: whether its name ends with .svg, whether
\* it can be opened for reading, its text, whether the directory of its
\* output path can be made, whether the output path can be opened for
\* writing, and whether an output file is there already
File(is_svg, readable, content, dir_ok, writable, old) ==
    [is_svg |-> is_svg, readable |-> readable, content |-> content,
     dir_ok |-> dir_ok, writable |-> writable, old |-> old]

FilePool ==
    { File(TRUE, TRUE, GoodDocument, TRUE, TRUE, old) : old \in BOOLEAN }
    \cup { File(TRUE, TRUE, RootlessDocument, TRUE, TRUE, old) : old \in BOOLEAN }
    \cup { File(TRUE, FALSE, <<>>, TRUE, TRUE, old) : old \in BOOLEAN }
    \cup { File(TRUE, TRUE, GoodDocument, TRUE, FALSE, old) : old \in BOOLEAN }
    \cup { File(TRUE, TRUE, GoodDocument, FALSE, TRUE, FALSE),
           File(FALSE, TRUE, RootlessDocument, TRUE, TRUE, FALSE) }

Directories == UNION {[1..n -> FilePool] : n \in 0..MaxFiles}

BatchInstances ==
    [preserve_text : {TRUE}, add_wrapper : {TRUE},
     conversion_mode : {"embed", "convert"}, precision : {2}]

\* the output paths before the batch
InitialOutput(file) == IF file.old THEN OldOutput ELSE Absent

\* an exception as convert_file prints it: its class and its message
Cause(type, message) == <<type>> \o message

\* locals of a conversion not yet run
FreshLocals == [element_id |-> 0, element_styles |-> <<>>, optimized_css |-> <<>>]

\* the output file is opened (and emptied) before the text is converted
WrittenOpenFirst(file, output, r) ==
    IF ~r.ok THEN [ok |-> FALSE, output |-> <<>>, cause |-> r.error]
    ELSE [ok |-> TRUE, output |-> r.html, cause |-> <<>>]

convert_file_open_first(inst, file, output) ==
    IF ~file.readable
    THEN [ok |-> FALSE, output |-> output, cause |-> Cause("OSError", <<"cannot open input">>)]
    ELSE IF ~file.writable
    THEN [ok |-> FALSE, output |-> output, cause |-> Cause("OSError", <<"cannot open output">>)]
    ELSE WrittenOpenFirst(file, output, convert_svg_to_html(inst, file.content, FreshLocals))

\* convert_file after the call of convert_svg_to_html gave r
Written(file, output, r) ==
    IF ~r.ok THEN [ok |-> FALSE, output |-> output, cause |-> r.error]
    ELSE IF ~file.writable
    THEN [ok |-> FALSE, output |-> output, cause |-> Cause("OSError", <<"cannot open output">>)]
    ELSE [ok |-> TRUE, output |-> r.html, cause |-> <<>>]

\* SVG2HTML.convert_file: what it returns, the content of the output path
\* after it, and the cause it prints when it fails
convert_file(inst, file, output) ==
    IF ~file.readable
    THEN [ok |-> FALSE, output |-> output, cause |-> Cause("OSError", <<"cannot open input">>)]
    ELSE Written(file, output, convert_svg_to_html(inst, file.content, FreshLocals))

InitBatch ==
    /\ self \in BatchInstances
    /\ ConvIdle /\ PathIdle /\ FmtIdle /\ GuiIdle
    /\ files \in Directories
    /\ idx = 0 /\ success_count = 0 /\ fail_count = 0 /\ log = <<>>
    /\ outputs = [i \in 1..Len(files) |-> InitialOutput(files[i])]
    /\ batch_state = "idle"

\* the call of convert_directory up to the loop
BeginDirectory ==
    /\ batch_state = "idle"
    /\ batch_state' = "running"
    /\ idx' = 1
    /\ UNCHANGED <<files, success_count, fail_count, log, outputs, convVars, pathVars, fmtVars, guiVars>>

\* an iteration on a file whose name does not end with .svg
SkipFile ==
    /\ batch_state = "running" /\ idx <= Len(files)
    /\ ~files[idx].is_svg
    /\ idx' = idx + 1
    /\ UNCHANGED <<files, success_count, fail_count, log, outputs, batch_state,
                   convVars, pathVars, fmtVars, guiVars>>

\* an iteration in which os.makedirs(os.path.dirname(output_file)) raises:
\* the exception leaves convert_directory
MakedirsRaises ==
    /\ batch_state = "running" /\ idx <= Len(files)
    /\ files[idx].is_svg /\ ~files[idx].dir_ok
    /\ batch_state' = "raised"
    /\ UNCHANGED <<files, idx, success_count, fail_count, log, outputs, convVars, pathVars, fmtVars, guiVars>>

\* convert_file gave r: the report, the counters and the output path
Counted(r) ==
    /\ outputs' = [outputs EXCEPT ![idx] = r.output]
    /\ log' = Append(log, [input |-> idx, ok |-> r.ok, cause |-> r.cause])
    /\ success_count' = IF r.ok THEN success_count + 1 ELSE success_count
    /\ fail_count' = IF r.ok THEN fail_count ELSE fail_count + 1

\* an iteration that calls convert_file and counts what it returns
AttemptFile ==
    /\ batch_state = "running" /\ idx <= Len(files)
    /\ files[idx].is_svg /\ files[idx].dir_ok
    /\ Counted(convert_file(self, files[idx], outputs[idx]))
    /\ idx' = idx + 1
    /\ UNCHANGED <<files, batch_state, convVars, pathVars, fmtVars, guiVars>>

\* return success_count, fail_count
ReturnCounts ==
    /\ batch_state = "running" /\ idx > Len(files)
    /\ batch_state' = "returned"
    /\ UNCHANGED <<files, idx, success_count, fail_count, log, outputs, convVars, pathVars, fmtVars, guiVars>>

NextBatch == BeginDirectory \/ SkipFile \/ MakedirsRaises \/ AttemptFile \/ ReturnCounts

SpecBatch == InitBatch /\ [][NextBatch]_vars

\* the .svg files of the input directory
SvgFiles == {i \in 1..Len(files) : files[i].is_svg}

\* the iterations that called convert_file on file i
Attempts(i) == {n \in 1..Len(log) : log[n].input = i}

\* C6: when a batch conversion ends, it has returned its counts, every
\* .svg file was attempted exactly once, every failed file is reported with
\* its path and a cause and counted as a failure, and the counts sum to the
\* number of .svg files.
C6_EveryFileAttempted ==
    batch_state \in {"returned", "raised"} =>
        /\ batch_state = "returned"
        /\ \A i \in SvgFiles : Cardinality(Attempts(i)) = 1
        /\ \A n \in 1..Len(log) : ~log[n].ok => log[n].cause # <<>>
        /\ fail_count = Cardinality({n \in 1..Len(log) : ~log[n].ok})
        /\ success_count + fail_count = Cardinality(SvgFiles)

\* C7: a file without an svg root, once attempted, is reported as failed
\* with the cause "no svg tag found", in embed and in full conversion mode,
\* counted as a failure, and its output path is as it was before the batch.
C7_RootlessFails ==
    \A n \in 1..Len(log) :
        LET file == files[log[n].input]
        IN  (file.readable /\ FindSvg(file.content) = 0) =>
                /\ ~log[n].ok
                /\ log[n].cause = Cause("ValueError", NoSvgMessage)
                /\ outputs[log[n].input] = InitialOutput(file)
                /\ fail_count >= 1

\* a batch that attempted a file without an svg root whose output path
\* held a file already
C7_Witness ==
    \E n \in 1..Len(log) :
        /\ files[log[n].input].readable
        /\ FindSvg(files[log[n].input].content) = 0
        /\ files[log[n].input].old
        /\ self.conversion_mode = "convert"

----------------------------------------------------------------------------
(* Repeated conversions on one instance (SpecRepeat) *)

\* most calls of convert_svg_to_html on one instance
MaxCalls == 3

RepeatDocuments ==
    { GoodDocument, RootlessDocument,
      <<Raw("<?xml version=\"1.0\" encoding=\"UTF-8\"?>\n"),
        OpenSvg([viewBox |-> <<"1", "0", " ", "2", "0", " ", "1", "0", "0", " ", "1", "0", "0">>]),
        Elem("circle", [cx |-> Dec(50, 0), cy |-> Dec(50, 0), r |-> Dec(25, 1250)], <<>>),
        Elem("text", [x |-> Dec(5, 0), y |-> Dec(30, 0), fill |-> <<"green">>], <<"Hi">>),
        CloseSvg>> }

RepeatInstances ==
    [preserve_text : {TRUE}, add_wrapper : BOOLEAN,
     conversion_mode : {"embed", "convert"}, precision : {2}]

InitRepeat == self \in RepeatInstances /\ ConvIdle /\ PathIdle /\ BatchIdle /\ FmtIdle /\ GuiIdle

NextRepeat == \E d \in RepeatDocuments : calls < MaxCalls /\ Convert(d)

SpecRepeat == InitRepeat /\ [][NextRepeat]_vars

\* C8: two conversions of the same text on one instance return the same
\* output, whatever the instance converted in between.
C8_Deterministic ==
    \A i, j \in 1..Len(history) :
        history[i].content = history[j].content => history[i].result = history[j].result

\* an instance that converted a drawing, then another document, then the
\* first drawing again
C8_Witness ==
    /\ self.conversion_mode = "convert"
    /\ Len(history) >= 3
    /\ history[1].content = history[3].content
    /\ history[1].content # history[2].content
    /\ history[1].result.ok /\ history[2].result.ok

----------------------------------------------------------------------------
(* Documents with nested elements: groups, text spans *)

\* most elements directly under the root of a nested document
MaxTreeElems == 2

TreePool ==
    { Elem("text", [x |-> Dec(5, 0), y |-> Dec(30, 0), fill |-> <<"green">>], <<"Hi">>),
      ElemOver("text", [x |-> Dec(10, 0), y |-> Dec(40, 0)], <<>>,
               << Elem("tspan", [fill |-> <<"red">>], <<"A">>),
                  Elem("tspan", [dy |-> <<"4">>], <<"B">>) >>),
      ElemOver("text", [x |-> Dec(0, 0), y |-> Dec(16, 0)], <<"x", "=">>,
               << Elem("tspan", [dy |-> <<"4">>], <<"1">>) >>),
      ElemOver("g", [id |-> <<"layer">>], <<>>,
               << Elem("rect", [x |-> Dec(10, 0), y |-> Dec(20, 0), width |-> Dec(30, 0),
                                height |-> Dec(40, 0), fill |-> <<"red">>], <<>>),
                  Elem("text", [x |-> Dec(12, 0), y |-> Dec(44, 0)], <<"in">>) >>),
      Elem("circle", [cx |-> Dec(50, 0), cy |-> Dec(50, 0), r |-> Dec(25, 0)], <<>>),
      Elem("rect", [x |-> Dec(50, 0), y |-> Dec(20, 0), width |-> Dec(30, 0),
                    height |-> Dec(40, 0), fill |-> <<"blue">>], <<>>),
      Elem("line", [x1 |-> Dec(0, 0), y1 |-> Dec(0, 0), x2 |-> <<"1e200">>, y2 |-> Dec(0, 0),
                    stroke |-> <<"black">>], <<>>) }

TreeBodies == UNION {[1..n -> TreePool] : n \in 0..MaxTreeElems}

TreeDocuments == {p \o b \o <<CloseSvg>> : p \in Prologs, b \in TreeBodies}

TreeInstances ==
    [preserve_text : {TRUE}, add_wrapper : {TRUE},
     conversion_mode : {"convert"}, precision : {0, 2}]

InitTree == self \in TreeInstances /\ ConvIdle /\ PathIdle /\ BatchIdle /\ FmtIdle /\ GuiIdle

NextTree == \E d \in TreeDocuments : calls = 0 /\ Convert(d)

SpecTree == InitTree /\ [][NextTree]_vars

\* the strings under an element, in document order, joined
StringsUnder(element) ==
    LET under == Descendants(<<element>>)
    IN  Concat([i \in 1..Len(under) |-> under[i].text])

TextElements(text) == SelectSeq(FindAll(text), LAMBDA e : e.tag = "text")

TextNodes(html) == SelectSeq(NodesOf(html), LAMBDA n : n.data_type = "text")

\* C11: in full conversion every text element of the input has exactly one
\* output node of data-type text, in the same order, and the node's text is
\* the element's text: its own string and those of its descendants, joined.
C11_TextKept ==
    FullDone =>
        /\ Len(TextNodes(result.html)) = Len(TextElements(svg_content))
        /\ \A i \in 1..Len(TextElements(svg_content)) :
              i <= Len(TextNodes(result.html)) =>
                  TextNodes(result.html)[i].string = StringsUnder(TextElements(svg_content)[i])

\* a converted document with a text element whose text is in its spans and
\* a second text element
C11_Witness ==
    /\ FullDone
    /\ Len(TextNodes(result.html)) >= 2
    /\ \E i \in 1..Len(TextElements(svg_content)) :
          /\ TextElements(svg_content)[i].text = <<>>
          /\ TextNodes(result.html)[i].string = <<"A", "B">>

\* the N of a node's class svg-element-N
\* (0 when the class is of no counted element)
IndexOfNode(node) ==
    LET fits(n) == node.class = ElementClass(n) \o <<" ", "svg-element">>
    IN  IF \E n \in 1..Len(FindAll(svg_content)) : fits(n)
        THEN CHOOSE n \in 1..Len(FindAll(svg_content)) : fits(n)
        ELSE 0

\* C12: the output nodes follow the document order of their elements: the
\* node of class svg-element-N is made from the N-th element the loop
\* counts, and N strictly increases along the output.
C12_DocumentOrder ==
    FullDone =>
        LET nodes == NodesOf(result.html)
            elements == Retained(svg_content)
        IN  /\ \A i \in 1..Len(nodes) :
                  /\ IndexOfNode(nodes[i]) \in 1..Len(elements)
                  /\ nodes[i].data_type = elements[IndexOfNode(nodes[i])].tag
            /\ \A i, j \in 1..Len(nodes) :
                  i < j => IndexOfNode(nodes[i]) < IndexOfNode(nodes[j])

\* a converted document whose nodes are of different kinds and whose
\* class indices skip an element without a node
C12_Witness ==
    /\ FullDone
    /\ Len(NodesOf(result.html)) >= 3
    /\ \E i \in 1..(Len(NodesOf(result.html)) - 1) :
          /\ NodesOf(result.html)[i].data_type # NodesOf(result.html)[i + 1].data_type
          /\ IndexOfNode(NodesOf(result.html)[i + 1]) > IndexOfNode(NodesOf(result.html)[i]) + 1

----------------------------------------------------------------------------
(* Documents of single shapes, over ranges of their attributes *)

\* most elements under the root of a document of shapes
MaxShapes == 1

RectPool ==
    { Elem("rect", [x |-> x, y |-> Dec(20, 0), width |-> Dec(30, 0), height |-> Dec(40, 5000)]
                       @@ Attr("rx", rx) @@ Attr("ry", ry), <<>>) :
        x \in {Dec(10, 0), Dec(7, 2500) \o <<"px">>},
        rx \in {None, Dec(0, 0), Dec(5, 0), <<"-">> \o Dec(5, 0)},
        ry \in {None, Dec(5, 0), Dec(8, 5000), <<"a", "b">>} }
    \cup { Elem("rect", [x |-> Dec(10, 0), y |-> Dec(20, 0), width |-> Dec(30, 0),
                         height |-> Dec(40, 0), rx |-> Dec(5, 0), ry |-> Dec(5, 0)], <<>>) }

RoundPool ==
    { Elem("circle", [cx |-> Dec(50, 0), cy |-> cy] @@ Attr("r", r), <<>>) :
        cy \in {Dec(50, 0), Dec(12, 5000)}, r \in {None, Dec(25, 0), Dec(25, 1250)} }
    \cup { Elem("ellipse", [cx |-> cx, cy |-> Dec(40, 0)] @@ Attr("rx", rx) @@ Attr("ry", ry), <<>>) :
        cx \in {Dec(50, 0), <<"-">> \o Dec(3, 0)},
        rx \in {None, Dec(20, 0)}, ry \in {Dec(10, 0), Dec(20, 0), Dec(7, 7500)} }

\* lines to the right, downward, to the left, upward, along the diagonal
\* and along a 3-4-5 triangle
LinePool ==
    { Elem("line", [x1 |-> Dec(ends[1], 0), y1 |-> Dec(ends[2], 0), x2 |-> Dec(ends[3], 0),
                    y2 |-> Dec(ends[4], 0), stroke |-> <<"black">>]
                       @@ Attr("stroke-width", sw), <<>>) :
        ends \in {<<0, 0, 10, 0>>, <<0, 0, 0, 10>>, <<10, 0, 0, 0>>, <<0, 10, 0, 0>>,
                  <<0, 0, 10, 10>>, <<0, 0, 3, 4>>},
        sw \in {None, <<"2">>} }

ShapePool == RectPool \cup RoundPool \cup LinePool

ShapeBodies == UNION {[1..n -> ShapePool] : n \in 0..MaxShapes}

ShapeDocuments == {p \o b \o <<CloseSvg>> : p \in Prologs, b \in ShapeBodies}

InitShape == self \in TreeInstances /\ ConvIdle /\ PathIdle /\ BatchIdle /\ FmtIdle /\ GuiIdle

NextShape == \E d \in ShapeDocuments : calls = 0 /\ Convert(d)

SpecShape == InitShape /\ [][NextShape]_vars

\* the view box origin of the converted document
Origin == ViewBoxOf(svg_content[FindSvg(svg_content)])

\* the declarations the output's stylesheet gives the node of element i
RuleOf(i) == DeclsOf(result.html, InstanceSel(i))

\* the value the rule gives a property, None when it gives none
ValueOf(rule, name) == IF HasKey(rule, <<name>>) THEN Lookup(rule, <<name>>) ELSE None

\* a length as the stylesheet writes it
Length(v) == _fmt(v, self.precision) \o <<"px">>

\* the attribute of an element as a number
NumberOf(element, name) == _get_float_attr(element, name, 0)

----------------------------------------------------------------------------
(* Documents with a gradient definition and a shape *)

\* the stops after the first of a gradient definition
MaxStops == 1

StopColours ==
    { <<"#", "f", "f", "0", "0", "0", "0">>, <<"#", "f", "0", "0">>, <<"#", "0", "a", "8">>,
      <<"#", "1", "E", "9", "0", "F", "F">>, <<"red">>, <<"#", "g", "g", "0", "0", "0", "0">>,
      <<"rgba(", "0", ",", " ", "0", ",", " ", "0", ",", " ", "0", ".", "2", ")">> }

StopOpacities == {None, <<"1">>, <<"0", ".", "5">>, <<"0">>}

StopPool ==
    { Elem("stop", Attr("offset", <<"0", "%">>) @@ Attr("stop-color", c)
                       @@ Attr("stop-opacity", o), <<>>) :
        c \in StopColours, o \in StopOpacities }

LastStop == Elem("stop", Attr("offset", <<"1", "0", "0", "%">>)
                          @@ Attr("stop-color", <<"#", "0", "0", "f">>), <<>>)

RECURSIVE LastStops(_)
LastStops(n) == IF n = 0 THEN <<>> ELSE <<LastStop>> \o LastStops(n - 1)

GradientPool ==
    { ElemOver("linearGradient", Attr("id", <<"g1">>) @@ Attr("x1", x1), <<>>,
               <<first>> \o LastStops(n)) :
        x1 \in {None, <<"a", "b", "c">>, <<"5", "0", "%">>}, first \in StopPool, n \in 0..MaxStops }
    \cup { ElemOver("radialGradient", Attr("id", <<"g1">>), <<>>, <<first>> \o LastStops(n)) :
        first \in StopPool, n \in 0..MaxStops }

FillPool == { <<"url(#", "g1", ")">>, <<"url(#", "missing", ")">>, <<"red">> }

GradientBodies ==
    { << ElemOver("defs", Attr("id", None), <<>>, <<g>>),
         Elem("rect", [x |-> Dec(10, 0), y |-> Dec(20, 0), width |-> Dec(30, 0),
                       height |-> Dec(40, 0), fill |-> f], <<>>),
         Elem("circle", [cx |-> Dec(50, 0), cy |-> Dec(50, 0), r |-> Dec(25, 0)], <<>>) >> :
        g \in GradientPool, f \in FillPool }

GradientDocuments == {<<OpenSvg([width |-> <<"4", "0", "0">>])>> \o b \o <<CloseSvg>> : b \in GradientBodies}

InitGradient == self \in TreeInstances /\ ConvIdle /\ PathIdle /\ BatchIdle /\ FmtIdle /\ GuiIdle

NextGradient == \E d \in GradientDocuments : calls = 0 /\ Convert(d)

SpecGradient == InitGradient /\ [][NextGradient]_vars

\* part is a piece of s
Occurs(s, part) ==
    \E k \in 1..(Len(s) - Len(part) + 1) : SubSeq(s, k, k + Len(part) - 1) = part

\* the n-th component (0, 1, 2) of a hex colour of three or six digits:
\* two digits of the long form, one digit taken twice of the short form
ComponentOf(colour, n) ==
    IF Len(colour) = 7
    THEN 16 * HexVal(colour[2 + 2 * n]) + HexVal(colour[3 + 2 * n])
    ELSE 17 * HexVal(colour[2 + n])

\* a stop with an opacity below 1 and a hex colour of three or six digits
IsFadedHexStop(stop) ==
    /\ Has(stop, "stop-opacity") /\ Has(stop, "stop-color")
    /\ ParseFloat(stop.attrs["stop-opacity"]).ok
    /\ ParseFloat(stop.attrs["stop-opacity"]).v < Scale
    /\ Head(stop.attrs["stop-color"]) = "#"
    /\ Len(stop.attrs["stop-color"]) \in {4, 7}
    /\ \A k \in 2..Len(stop.attrs["stop-color"]) : IsHex(stop.attrs["stop-color"][k])

\* the colour the stop is to have in the generated gradient
FadedColour(stop) ==
    <<"rgba(">> \o Digits(ComponentOf(stop.attrs["stop-color"], 0)) \o <<",", " ">>
        \o Digits(ComponentOf(stop.attrs["stop-color"], 1)) \o <<",", " ">>
        \o Digits(ComponentOf(stop.attrs["stop-color"], 2)) \o <<",", " ">>
        \o stop.attrs["stop-opacity"] \o <<")">>

\* the gradient definitions of the converted document
GradientsIn(text) == GradientTags(FindAll(text))

\* the elements whose fill references the gradient definition
ReferringTo(gradient) ==
    {i \in 1..Len(Retained(svg_content)) :
        Get(Retained(svg_content)[i], "fill", None) = UrlOf(gradient.attrs["id"])}

\* the node of element i in the output
NodeOf(i) ==
    LET found == SelectSeq(NodesOf(result.html), LAMBDA n : IndexOfNode(n) = i)
    IN  IF found = <<>> THEN None ELSE found[1]

\* C15: a gradient stop with a stop-opacity below 1 and a hex colour of
\* three or six digits has, in the gradient generated for every element
\* that refers to it (its stylesheet rule and its node's style), the colour
\* rgba(r, g, b, opacity) of the hex colour's components, the short form
\* read as its long form.
C15_FadedStopIsRgba ==
    FullDone =>
        \A g \in 1..Len(GradientsIn(svg_content)) :
            \A st \in 1..Len(FindAllNamed(GradientsIn(svg_content)[g], "stop")) :
                LET stop == FindAllNamed(GradientsIn(svg_content)[g], "stop")[st]
                IN  IsFadedHexStop(stop) =>
                        \A i \in ReferringTo(GradientsIn(svg_content)[g]) :
                            /\ Occurs(ValueOf(RuleOf(i), "background-color"),
                                      FadedColour(stop) \o <<" ">> \o stop.attrs["offset"])
                            /\ NodeOf(i) # None
                            /\ Occurs(NodeOf(i).style,
                                      FadedColour(stop) \o <<" ">> \o stop.attrs["offset"])

\* a converted document whose rect refers to a gradient with the stop
\* #f00 at stop-opacity 0.5: its rule has rgba(255, 0, 0, 0.5) 0%
C15_Witness ==
    /\ FullDone
    /\ Len(GradientsIn(svg_content)) = 1
    /\ FindAllNamed(GradientsIn(svg_content)[1], "stop")[1].attrs
          = (Attr("offset", <<"0", "%">>) @@ Attr("stop-color", <<"#", "f", "0", "0">>)
                @@ Attr("stop-opacity", <<"0", ".", "5">>))
    /\ ReferringTo(GradientsIn(svg_content)[1]) = {1}
    /\ Occurs(ValueOf(RuleOf(1), "background-color"),
              <<"rgba(", "2", "5", "5", ",", " ", "0", ",", " ", "0", ",", " ",
                "0", ".", "5", ")", " ", "0", "%">>)

\* a gradient definition whose conversion fails: a stop or an end point
\* that cannot be read
Malformed(gradient) == ~_convert_gradient_to_css(gradient).ok

\* the fill of element i references no gradient definition that can be
\* converted: none has the id, or the one that has it is malformed
Unresolved(i) ==
    LET fill == Get(Retained(svg_content)[i], "fill", None)
    IN  /\ fill # None /\ Head(fill) = "url(#"
        /\ \A g \in 1..Len(GradientsIn(svg_content)) :
              fill = UrlOf(GradientsIn(svg_content)[g].attrs["id"])
                  => Malformed(GradientsIn(svg_content)[g])

\* C16: gradient resolution is never fatal.  Every conversion of a document
\* with an svg root returns a document, whether or not a gradient
\* definition is malformed or referenced; a fill that cannot be resolved
\* stays the literal it is, and every shape has its node.
C16_GradientsNeverFatal ==
    (calls > 0 /\ FindSvg(svg_content) # 0) =>
        /\ result.ok
        /\ \A i \in 1..Len(Retained(svg_content)) :
              /\ NodeOf(i) # None
              /\ Unresolved(i) =>
                    ValueOf(RuleOf(i), "background-color")
                        = Get(Retained(svg_content)[i], "fill", None)

----------------------------------------------------------------------------
(* A failure of one element's extraction *)

\* the declarations of an element converted on its own
AloneDecls(element) ==
    _parse_css_properties(
        Join(ShapeProps(element, element.tag, Origin.min_x, Origin.min_y, self.precision)
                 \o CommonProps(element), <<";", " ">>))

\* C17: a failure while the style of one element is extracted does not
\* abort the document: the conversion returns a complete document, the
\* failing element has no rule and no node, and every other element has
\* the rule, and the shapes and texts the node, it has without the failure.
C17_ElementFailureContained ==
    (calls > 0 /\ FindSvg(svg_content) # 0) =>
        /\ result.ok
        /\ result.html[Len(result.html)] = Raw("</body></html>")
        /\ \A i \in 1..Len(Retained(svg_content)) :
              LET e == Retained(svg_content)[i]
              IN  IF ExtractRaises(e, e.tag)
                  THEN RuleOf(i) = <<>> /\ NodeOf(i) = None
                           /\ ~HasKey(element_styles, ElementClass(i))
                  ELSE /\ RuleOf(i) = AloneDecls(e)
                       /\ (e.tag \in ShapeTags \cup {"text"}) => NodeOf(i) # None

\* a converted document whose first element fails and whose second has
\* its rule and its node
C17_Witness ==
    /\ FullDone
    /\ Len(Retained(svg_content)) >= 2
    /\ ExtractRaises(Retained(svg_content)[1], Retained(svg_content)[1].tag)
    /\ RuleOf(1) = <<>> /\ NodeOf(1) = None
    /\ RuleOf(2) # <<>> /\ NodeOf(2) # None

----------------------------------------------------------------------------
(* Documents of one element with style sources and a transform *)

\* transform attributes and the values they are mapped to
TransformCases ==
    { << <<"rotate", "(", "4", "5", ")">>, <<"rotate(", "4", "5", "deg)">> >>,
      << <<"rotate", "(", "4", "5", ",", "1", "0", ",", "2", "0", ")">>,
         <<"rotate(", "4", "5", "deg)", " ", "translate(", "1", "0", "px", ",", " ", "2", "0", "px)",
           " ", "rotate(", "-", "4", "5", "deg)", " ", "translate(", "-", "1", "0", "px", ",", " ",
           "-", "2", "0", "px)">> >>,
      << <<"translate", "(", "5", ")">>, <<"translate(", "5", "px", ",", " ", "0", "px)">> >>,
      << <<"translate", "(", "5", ",", "7", ")">>,
         <<"translate(", "5", "px", ",", " ", "7", "px)">> >>,
      << <<"scale", "(", "2", ")">>, <<"scale(", "2", ",", " ", "2", ")">> >>,
      << <<"scale", "(", "2", ",", "3", ")">>, <<"scale(", "2", ",", " ", "3", ")">> >>,
      << <<"skewX", "(", "1", "0", ")">>, <<"skewX", "(", "1", "0", ")">> >> }

TransformPool == {None} \cup {c[1] : c \in TransformCases}

InlineStyles ==
    { None,
      <<"fill", ":", " ", "blue">>,
      <<"fill", ":", " ", "blue", ";", " ", "stroke", ":", " ", "black">>,
      <<"fill-opacity", ":", " ", "0", ".", "5">>,
      <<"stroke-width", ":", " ", "3">> }

StyledPool ==
    { Elem("rect", [x |-> Dec(10, 0), y |-> Dec(20, 0), width |-> Dec(30, 0), height |-> Dec(40, 0)]
                       @@ Attr("fill", f) @@ Attr("style", st) @@ Attr("transform", t), <<>>) :
        f \in {None, <<"red">>}, st \in InlineStyles, t \in TransformPool }
    \cup { Elem("text", [x |-> Dec(5, 0), y |-> Dec(30, 0)] @@ Attr("text-anchor", a)
                            @@ Attr("style", st), <<"Hi">>) :
        a \in {None, <<"middle">>}, st \in {None, <<"text-anchor", ":", " ", "end">>} }

StyledDocuments == {p \o <<e>> \o <<CloseSvg>> : p \in Prologs, e \in StyledPool}

InitStyle == self \in TreeInstances /\ ConvIdle /\ PathIdle /\ BatchIdle /\ FmtIdle /\ GuiIdle

NextStyle == \E d \in StyledDocuments : calls = 0 /\ Convert(d)

SpecStyle == InitStyle /\ [][NextStyle]_vars

\* the source style properties and the output properties they are emitted under
MappedProperties ==
    { <<"fill", "background-color">>, <<"stroke", "border-color">>,
      <<"stroke-width", "border-width">>, <<"fill-opacity", "opacity">>,
      <<"text-anchor", "text-align">> }

\* the declarations of the element's inline style
InlineOf(element) == _parse_css_properties(Get(element, "style", <<>>))

\* the value a source property resolves to: the inline style's, else the
\* presentation attribute's, else None (the default)
Resolved(element, name) ==
    IF HasKey(InlineOf(element), <<name>>) THEN Lookup(InlineOf(element), <<name>>)
    ELSE Get(element, name, None)

\* C18: every source style property an element gives, in its inline style
\* or as a presentation attribute, is in the element's rule under its
\* mapped name with the inline style's value where there is one, else the
\* attribute's: a fill given both ways has the inline value as
\* background-color.
C18_StylePrecedence ==
    FullDone =>
        \A i \in 1..Len(Retained(svg_content)) :
            \A m \in MappedProperties :
                Resolved(Retained(svg_content)[i], m[1]) # None =>
                    ValueOf(RuleOf(i), m[2]) = Resolved(Retained(svg_content)[i], m[1])

\* C19: an element with a transform attribute has in its rule a transform
\* declaration with the mapped function.
C19_TransformDeclared ==
    FullDone =>
        \A i \in 1..Len(Retained(svg_content)) :
            \A c \in TransformCases :
                Get(Retained(svg_content)[i], "transform", None) = c[1] =>
                    ValueOf(RuleOf(i), "transform") = c[2]

----------------------------------------------------------------------------
(* Lines *)

\* atan2(dy, dx) in degrees for the eight directions of the compass
\* (y grows downward), None for another direction
CompassDegrees(dy, dx) ==
    CASE dy = 0 /\ dx > 0 -> 0
      [] dy > 0 /\ dx = dy -> 45 * Scale
      [] dy > 0 /\ dx = 0 -> 90 * Scale
      [] dy > 0 /\ dx = 0 - dy -> 135 * Scale
      [] dy = 0 /\ dx < 0 -> 180 * Scale
      [] dy < 0 /\ dx = dy -> 225 * Scale
      [] dy < 0 /\ dx = 0 -> 270 * Scale
      [] dy < 0 /\ dx = 0 - dy -> 315 * Scale
      [] OTHER -> 0 - 1

\* two angles less than a hundredth of a degree apart, turns apart or not
SameAngle(a, b) ==
    LET turn == 360 * Scale
        d == (((a - b) % turn) + turn) % turn
    IN  d < Scale \div 100 \/ turn - d < Scale \div 100

\* the angle of a rotate(...deg) value
RotationOf(value) == ParseFloat(SubSeq(value, 2, Len(value) - 1)).v

\* C20: the rule of a line has the Euclidean length of the segment as the
\* length of its bar and, where it rotates the bar, the angle atan2(dy, dx)
\* in degrees.  A line with |dy| < 0.01 is a horizontal bar as high as the
\* stroke is wide, a line with |dx| < 0.01 a vertical bar as wide as the
\* stroke, and every other line a bar rotated about its first end point
\* (transform-origin 0 0).
C20_LineBar ==
    FullDone =>
        \A i \in 1..Len(Retained(svg_content)) :
            Retained(svg_content)[i].tag = "line" =>
                LET e == Retained(svg_content)[i]
                    dx == NumberOf(e, "x2") - NumberOf(e, "x1")
                    dy == NumberOf(e, "y2") - NumberOf(e, "y1")
                    long == Length(Hypot(dx, dy))
                    wide == Length(_get_float_attr(e, "stroke-width", Scale))
                    turned == ValueOf(RuleOf(i), "transform")
                IN  /\ (turned # None /\ CompassDegrees(dy, dx) >= 0)
                          => SameAngle(RotationOf(turned), CompassDegrees(dy, dx))
                    /\ IF Abs(dy) < Scale \div 100
                       THEN ValueOf(RuleOf(i), "width") = long
                                /\ ValueOf(RuleOf(i), "height") = wide
                       ELSE IF Abs(dx) < Scale \div 100
                       THEN ValueOf(RuleOf(i), "height") = long
                                /\ ValueOf(RuleOf(i), "width") = wide
                       ELSE /\ ValueOf(RuleOf(i), "width") = long
                            /\ turned # None
                            /\ ValueOf(RuleOf(i), "transform-origin") = <<"0", " ", "0">>

----------------------------------------------------------------------------
(* Linear gradients over the directions of their end points *)

EndTexts == {<<"0", "%">>, <<"1", "0", "0", "%">>, <<"0">>, <<"1">>}

\* a gradient from (x1, y1) to (x2, y2), the end points all per cent or
\* all fractions, or all left to their defaults
AngleGradients ==
    { ElemOver("linearGradient",
               Attr("id", <<"g1">>) @@ Attr("x1", e[1]) @@ Attr("y1", e[2])
                   @@ Attr("x2", e[3]) @@ Attr("y2", e[4]), <<>>, <<LastStop>>) :
        e \in {q \in [1..4 -> EndTexts] :
                  (\A k \in 1..4 : Contains(q[k], "%")) \/ (\A k \in 1..4 : ~Contains(q[k], "%"))} }
    \cup { ElemOver("linearGradient", Attr("id", <<"g1">>), <<>>, <<LastStop>>) }

AngleDocuments ==
    { p \o << ElemOver("defs", Attr("id", None), <<>>, <<g>>),
              Elem("rect", [x |-> Dec(10, 0), y |-> Dec(20, 0), width |-> Dec(30, 0),
                            height |-> Dec(40, 0), fill |-> <<"url(#", "g1", ")">>], <<>>) >>
        \o <<CloseSvg>> : p \in Prologs, g \in AngleGradients }

InitAngle == self \in TreeInstances /\ ConvIdle /\ PathIdle /\ BatchIdle /\ FmtIdle /\ GuiIdle

NextAngle == \E d \in AngleDocuments : calls = 0 /\ Convert(d)

SpecAngle == InitAngle /\ [][NextAngle]_vars

\* the end point attribute of a gradient as a number, with its default
EndOf(gradient, name, default) == EndPoint(Get(gradient, name, default)).v

\* the angle of a linear-gradient(...deg, ...) value
GradientAngleOf(value) == ParseFloat(SubSeq(value, 2, IndexOf(value, "deg") - 1)).v

\* C21: the angle of a linear gradient is (90 - atan2(dy, dx) in degrees)
\* mod 360 for every direction of its end points: 90deg from left to
\* right, 270deg from right to left, 0deg downward, 180deg upward, 45deg
\* for dx = dy > 0, which is the direction of the defaults.
C21_GradientAngle ==
    FullDone =>
        \A g \in 1..Len(GradientsIn(svg_content)) :
            LET gradient == GradientsIn(svg_content)[g]
                dx == EndOf(gradient, "x2", <<"1", "0", "0", "%">>)
                          - EndOf(gradient, "x1", <<"0", "%">>)
                dy == EndOf(gradient, "y2", <<"1", "0", "0", "%">>)
                          - EndOf(gradient, "y1", <<"0", "%">>)
            IN  (gradient.tag = "linearGradient" /\ CompassDegrees(dy, dx) >= 0) =>
                    \A i \in ReferringTo(gradient) :
                        SameAngle(GradientAngleOf(ValueOf(RuleOf(i), "background-color")),
                                  90 * Scale - CompassDegrees(dy, dx))

----------------------------------------------------------------------------
(* The runtime script *)

\* the output has the script
HasScript == \E k \in 1..Len(result.html) : result.html[k].k = "script"

\* element i has a node the script redraws: a polyline, a path, or a
\* polygon with a stroke
Redrawn(i) ==
    /\ NodeOf(i) # None
    /\ \/ Retained(svg_content)[i].tag \in {"polyline", "path"}
       \/ /\ Retained(svg_content)[i].tag = "polygon"
          /\ Get(Retained(svg_content)[i], "stroke", None) \notin {None, <<"none">>}

\* C22: a generated document has the runtime redraw script exactly when
\* its output has a polyline node, a path node or a node of a polygon with
\* a stroke.
C22_ScriptWhenRedrawn ==
    FullDone => (HasScript <=> \E i \in 1..Len(Retained(svg_content)) : Redrawn(i))

----------------------------------------------------------------------------
(* Elements of no recognised kind *)

\* the kinds _create_html_element makes a node for
NodeTags == ShapeTags \cup {"text", "foreignObject"}

GeometryNames == {"left", "top", "width", "height"}

\* element i is in the output: as its node, or as the element it is
PassedThrough(i) ==
    \/ NodeOf(i) # None
    \/ \E k \in 1..Len(result.html) : result.html[k] = Retained(svg_content)[i]

\* C23: an element of an unrecognised kind has no geometry declaration and
\* is kept in the output as a node, with or without style attributes.
C23_UnrecognisedKept ==
    FullDone =>
        \A i \in 1..Len(Retained(svg_content)) :
            Retained(svg_content)[i].tag \notin NodeTags =>
                /\ \A n \in GeometryNames : ValueOf(RuleOf(i), n) = None
                /\ PassedThrough(i)

----------------------------------------------------------------------------
(* Documents of one shape with negative or degenerate geometry *)

Minus(v) == <<"-">> \o v

\* a points text of the points given as pairs of whole numbers
PointsText(pts) ==
    Join([i \in 1..Len(pts) |-> Dec(pts[i][1], 0) \o <<",">> \o Dec(pts[i][2], 0)], <<" ">>)

PointLists ==
    { <<<<5, 5>>>>, <<<<10, 20>>, <<10, 20>>>>, <<<<0, 0>>, <<10, 10>>>>,
      <<<<10, 20>>, <<30, 5>>>>, <<<<10, 20>>, <<30, 5>>, <<20, 40>>>> }

EdgePool ==
    { Elem("rect", [x |-> Dec(10, 0), y |-> Dec(20, 0), width |-> w, height |-> h], <<>>) :
        w \in {Dec(30, 0), Minus(Dec(30, 0)), Dec(0, 0)},
        h \in {Dec(40, 0), Minus(Dec(40, 0))} }
    \cup { Elem("circle", [cx |-> Dec(50, 0), cy |-> Dec(50, 0), r |-> r], <<>>) :
        r \in {Dec(25, 0), Minus(Dec(5, 0)), Dec(0, 0)} }
    \cup { Elem("ellipse", [cx |-> Dec(50, 0), cy |-> Dec(40, 0), rx |-> rx, ry |-> ry], <<>>) :
        rx \in {Dec(20, 0), Minus(Dec(20, 0))}, ry \in {Dec(10, 0), Minus(Dec(10, 0))} }
    \cup { Elem("polyline", [points |-> PointsText(pts)] @@ Attr("stroke", s)
                                @@ Attr("stroke-width", sw), <<>>) :
        pts \in PointLists, s \in {None, <<"red">>}, sw \in {None, <<"2">>} }
    \cup { Elem("polygon", [points |-> PointsText(pts), fill |-> <<"blue">>], <<>>) :
        pts \in PointLists }
    \cup { Elem("path", [d |-> d], <<>>) :
        d \in { <<PCmd("M"), PNum(Num(10, 0)), PNum(Num(20, 0))>>,
                <<PCmd("M"), PNum(Num(10, 0)), PNum(Num(20, 0)),
                  PCmd("L"), PNum(Num(10, 0)), PNum(Num(20, 0))>>,
                <<PCmd("M"), PNum(Num(10, 0)), PNum(Num(20, 0)),
                  PCmd("L"), PNum(Num(5, 0)), PNum(Num(40, 0))>> } }

EdgeBodies == UNION {[1..n -> EdgePool] : n \in 0..MaxShapes}

EdgeDocuments == {p \o b \o <<CloseSvg>> : p \in Prologs, b \in EdgeBodies}

InitEdge == self \in TreeInstances /\ ConvIdle /\ PathIdle /\ BatchIdle /\ FmtIdle /\ GuiIdle

NextEdge == \E d \in EdgeDocuments : calls = 0 /\ Convert(d)

SpecEdge == InitEdge /\ [][NextEdge]_vars

BoxedTags == {"rect", "circle", "ellipse", "polyline", "polygon", "path"}

\* a length that is written with a minus sign
IsNegative(v) == v # None /\ v # <<>> /\ v[1] = "-"

\* C24: the width and the height of the rule of every rect, circle,
\* ellipse, polyline, polygon and path are not negative, whatever the
\* attributes of the element.
C24_BoxNotNegative ==
    FullDone =>
        \A i \in 1..Len(Retained(svg_content)) :
            Retained(svg_content)[i].tag \in BoxedTags =>
                /\ ~IsNegative(ValueOf(RuleOf(i), "width"))
                /\ ~IsNegative(ValueOf(RuleOf(i), "height"))

\* the declarations of the style attribute of the node of element i
NodeStyleOf(i) == IF NodeOf(i) = None THEN <<>> ELSE _parse_css_properties(NodeOf(i).style)

\* C25: the rule of every polyline stores in --polyline-points the points
\* text of the source as it is written, with the stroke (black when not
\* given) and the stroke width (1 when not given), and the style of its
\* node stores the same points.
C25_PolylinePoints ==
    FullDone =>
        \A i \in 1..Len(Retained(svg_content)) :
            Retained(svg_content)[i].tag = "polyline" =>
                /\ ValueOf(RuleOf(i), "--polyline-points")
                      = Quoted(Get(Retained(svg_content)[i], "points", <<>>))
                /\ ValueOf(RuleOf(i), "--polyline-stroke")
                      = Quoted(Get(Retained(svg_content)[i], "stroke", <<"black">>))
                /\ ValueOf(RuleOf(i), "--polyline-stroke-width")
                      = Quoted(Get(Retained(svg_content)[i], "stroke-width", <<"1">>))
                /\ ValueOf(NodeStyleOf(i), "--polyline-points")
                      = ValueOf(RuleOf(i), "--polyline-points")

----------------------------------------------------------------------------
(* _fmt over values and precisions *)

FmtValues ==
    { Num(0, 0), Num(10, 0), Num(100, 0), Num(30, 0), Num(5, 0), Num(1, 5000),
      Num(12, 3456), Num(0, 5000), Num(200, 0), Num(7, 2500), 0 - Num(10, 0),
      0 - Num(2, 5000) }

FmtInstances ==
    [preserve_text : {TRUE}, add_wrapper : {TRUE},
     conversion_mode : {"convert"}, precision : 0..MaxPrecision]

InitFmt ==
    /\ self \in FmtInstances
    /\ ConvIdle /\ PathIdle /\ BatchIdle /\ GuiIdle
    /\ fmt_value \in FmtValues
    /\ fmt_text = Pending

\* self._fmt(value)
Format ==
    /\ fmt_text = Pending
    /\ fmt_text' = _fmt(fmt_value, self.precision)
    /\ UNCHANGED <<fmt_value, self, convVars, pathVars, batchVars, guiVars>>

NextFmt == Format

SpecFmt == InitFmt /\ [][NextFmt]_vars

\* the float v rounded to p decimals
Rounded(v, p) ==
    IF p >= FracDigits THEN v
    ELSE (IF v < 0 THEN -1 ELSE 1) * RoundTo(v, p) * Pow10(FracDigits - p)

\* C26: for every value and every precision from 0 to 6 the text _fmt
\* returns is not empty and is a number equal to the value rounded to that
\* many decimals: the digits before the decimal point are kept.
C26_FmtKeepsInteger ==
    fmt_text # Pending =>
        /\ fmt_text # <<>>
        /\ ParseFloat(fmt_text).ok
        /\ ParseFloat(fmt_text).v = Rounded(fmt_value, self.precision)

----------------------------------------------------------------------------
(* Documents over the attributes of their root *)

RootViewBoxes ==
    { None, <<"0", " ", "0", " ", "1", "0", "0", " ", "1", "0", "0">>,
      <<"1", "0", " ", "2", "0", " ", "1", "0", "0">>,
      <<"a", " ", "b", " ", "c", " ", "d">>,
      <<"0", " ", "0", " ", "1", "0", "0", "%", " ", "1", "0", "0", "%">> }

RootWidths ==
    { None, <<"4", "0", "0">>, <<"4", "0", "0", "px">>, <<"1", "0", "0", "%">>,
      <<"1", "0", "em">>, <<"auto">> }

RootHeights == { None, <<"3", "0", "0">>, <<"1", "0", "0", "%">> }

RootPrologs ==
    { <<OpenSvg(Attr("viewBox", vb) @@ Attr("width", w) @@ Attr("height", h))>> :
        vb \in RootViewBoxes, w \in RootWidths, h \in RootHeights }

RootBodies ==
    { <<>>,
      <<Elem("rect", [x |-> Dec(10, 0), y |-> Dec(20, 0), width |-> Dec(30, 0),
                      height |-> Dec(40, 0)], <<>>)>> }

RootDocuments == {p \o b \o <<CloseSvg>> : p \in RootPrologs, b \in RootBodies}

InitRoot == self \in TreeInstances /\ ConvIdle /\ PathIdle /\ BatchIdle /\ FmtIdle /\ GuiIdle

NextRoot == \E d \in RootDocuments : calls = 0 /\ Convert(d)

SpecRoot == InitRoot /\ [][NextRoot]_vars

\* C27: the full conversion of every document with an svg root returns a
\* document, whatever the viewBox, the width and the height of the root.
C27_ViewBoxNeverFatal ==
    (calls > 0 /\ self.conversion_mode = "convert" /\ FindSvg(svg_content) # 0) => result.ok

----------------------------------------------------------------------------
(* The colour of text *)

\* the value the declarations on the node of element i give a property: its
\* style attribute's, else its rule's
Applied(i, name) ==
    IF ValueOf(NodeStyleOf(i), name) # None THEN ValueOf(NodeStyleOf(i), name)
    ELSE ValueOf(RuleOf(i), name)

\* C28: for every text element with a fill other than none, the
\* declarations on its node (its rule and its style attribute) do not set
\* background-color to the value they set color to.
C28_TextFillIsColour ==
    FullDone =>
        \A i \in 1..Len(Retained(svg_content)) :
            (/\ Retained(svg_content)[i].tag = "text"
             /\ Get(Retained(svg_content)[i], "fill", None) \notin {None, <<"none">>}
             /\ NodeOf(i) # None)
                => /\ Applied(i, "color") = Get(Retained(svg_content)[i], "fill", None)
                   /\ Applied(i, "background-color") # Applied(i, "color")

----------------------------------------------------------------------------
(* Rules and nodes *)

\* the output has a rule for the class of element id
HasInstanceRule(id) ==
    \E k \in 1..Len(RulesOf(result.html)) : RulesOf(result.html)[k].sel = InstanceSel(id)

\* the nodes of the output with the class of element id
NodesOfClass(id) ==
    {k \in 1..Len(NodesOf(result.html)) : IndexOfNode(NodesOf(result.html)[k]) = id}

\* C29: in full conversion every rule of an element's class selects exactly
\* one node of the output, and every node of the output has a rule of its
\* class.
C29_RulesMatchNodes ==
    FullDone =>
        \A id \in 1..element_id :
            /\ HasInstanceRule(id) => Cardinality(NodesOfClass(id)) = 1
            /\ NodesOfClass(id) # {} => HasInstanceRule(id)

----------------------------------------------------------------------------
(* The window's conversion threads (src/gui_actions.py, src/svg2html_gui.py) *)

\* most ConversionWorker threads started in a behaviour
MaxWorkers == 3

\* the values window.output_file and window.output_dir are set to
OutputFiles == {"a.html", "b.html"}

OutputDirs == {"html_output"}

\* ConversionWorker.__init__ and QThread.start(): the thread runs run()
Worker(output_path, is_batch) ==
    [output_path |-> output_path, is_batch |-> is_batch, pc |-> "running"]

InitGui ==
    /\ self = DefaultInstance
    /\ ConvIdle /\ PathIdle /\ BatchIdle /\ FmtIdle /\ GuiIdle

\* start_conversion(window), past its two checks of the input and output
\* file (when one fails it warns and returns): the progress bar is shown
\* and a new thread is made and started, whatever window.conversion_thread
\* holds
start_conversion(output_file) ==
    /\ Len(workers) < MaxWorkers
    /\ progress_visible' = TRUE
    /\ status_message' = "converting"
    /\ workers' = Append(workers, Worker(output_file, FALSE))
    /\ UNCHANGED <<signals, self, convVars, pathVars, batchVars, fmtVars>>

\* start_batch_conversion(window), past its two checks of the directories
start_batch_conversion(output_dir) ==
    /\ Len(workers) < MaxWorkers
    /\ progress_visible' = TRUE
    /\ status_message' = "batch converting"
    /\ workers' = Append(workers, Worker(output_dir, TRUE))
    /\ UNCHANGED <<signals, self, convVars, pathVars, batchVars, fmtVars>>

\* the messages run() emits: of a directory, of a file, of an exception
Outcomes(worker) ==
    IF worker.is_batch
    THEN { [success |-> TRUE, message |-> "batch done"],
           [success |-> FALSE, message |-> "error"] }
    ELSE { [success |-> TRUE, message |-> "converted"],
           [success |-> FALSE, message |-> "failed"],
           [success |-> FALSE, message |-> "error"] }

\* ConversionWorker.run of thread i, to its end: it writes its output path
\* and emits conversion_complete, which is queued for the window's thread
run(i) ==
    /\ i <= Len(workers)
    /\ workers[i].pc = "running"
    /\ workers' = [workers EXCEPT ![i].pc = "emitted"]
    /\ \E outcome \in Outcomes(workers[i]) : signals' = Append(signals, outcome)
    /\ UNCHANGED <<progress_visible, status_message, self, convVars, pathVars,
                   batchVars, fmtVars>>

\* conversion_finished(success, message), the slot of conversion_complete;
\* active is FALSE when QApplication.activeWindow() is None
conversion_finished(active) ==
    /\ signals # <<>>
    /\ signals' = Tail(signals)
    /\ IF active
       THEN /\ progress_visible' = FALSE
            /\ status_message' = Head(signals).message
       ELSE UNCHANGED <<progress_visible, status_message>>
    /\ UNCHANGED <<workers, self, convVars, pathVars, batchVars, fmtVars>>

NextGui ==
    \/ \E output_file \in OutputFiles : start_conversion(output_file)
    \/ \E output_dir \in OutputDirs : start_batch_conversion(output_dir)
    \/ \E i \in 1..MaxWorkers : run(i)
    \/ \E active \in BOOLEAN : conversion_finished(active)

SpecGui == InitGui /\ [][NextGui]_vars

\* the threads that have not yet emitted conversion_complete
Running == {i \in 1..Len(workers) : workers[i].pc = "running"}

\* C30: at most one ConversionWorker is running at any time, so no two
\* write one output path together, and while one is running the progress
\* bar shown at its start is visible.
C30_OneWorker ==
    /\ Cardinality(Running) <= 1
    /\ \A i, j \in Running : workers[i].output_path = workers[j].output_path => i = j
    /\ Running # {} => progress_visible

====
